---- MODULE Spec2Model ----
(***************************************************************************)
(* Library management service (services/library_service.py): catalog,      *)
(* borrowing lifecycle and late-fee calculation, over a book store and a   *)
(* borrow-record store.                                                    *)
(*                                                                         *)
(* Strings are sequences of one-character strings. Timestamps are counted  *)
(* in ticks, TicksPerDay ticks to a calendar day. Money is counted in      *)
(* mills (1/1000 of a dollar), so that round(fee, 2) is a real rounding.   *)
(***************************************************************************)
EXTENDS Integers, Sequences, FiniteSets, TLC

VARIABLES books, borrow_records, now, result, nBorrowed, nReturned, in_flight

vars == <<books, borrow_records, now, result, nBorrowed, nReturned, in_flight>>

(* ------------------------------ bounds --------------------------------- *)

\* books the catalog may hold
MaxBooks == 2
\* borrow records the record store may hold in Spec
MaxRecords == 2
\* borrow records the record store may hold in FailSpec
MaxFailRecords == 2
\* borrow records the record store may hold in LimitSpec
MaxLimitRecords == 6
\* borrow records the record store may hold in CatalogSpec and ValidationSpec
MaxCatalogRecords == 1
\* ticks of the clock per calendar day
TicksPerDay == 2
\* last tick at which the clock of Spec may start
MaxTick == 1
\* last day of the clock in FeeSpec
MaxFeeDay == 35
\* last tick at which the record of FeeSpec was borrowed, and at which a
\* book is borrowed in PaySpec
MaxBorrowTick == 1
\* borrow records the record store may hold in PaySpec
MaxPayRecords == 1
\* last day of the clock in PaySpec
MaxPayDay == 17
\* borrow records the record store may hold in LifeSpec
MaxLifeRecords == 2
\* last tick of the clock in LifeSpec
MaxLifeTick == 2
\* callers whose borrowBook calls may run at the same time in RaceSpec
MaxCallers == 2
\* borrow records the record store may hold in StatusSpec
MaxStatusRecords == 3
\* borrow records the record store may hold in RepeatSpec
MaxRepeatRecords == 3
\* days the clock of RepeatSpec moves on in one step
JumpDays == 8
\* last day of the clock in RepeatSpec
MaxRepeatDay == 16

(* ------------------------- program constants --------------------------- *)

MaxTitleLen == 200
MaxAuthorLen == 100
IsbnLen == 13
PatronIdLen == 6
BorrowLimit == 5
LoanDays == 14
TierDays == 7
TierOneRate == 500
TierTwoRate == 1000
MaxFee == 15000

(* ------------------------------ strings -------------------------------- *)

Digits == {"0", "1", "2", "3", "4", "5", "6", "7", "8", "9"}

Whitespace == {" ", "\t", "\n"}

\* the string made of n copies of the character c
Rep(c, n) == [i \in 1..n |-> c]

\* str.isdigit(): non-empty and every character a digit
IsDigitStr(s) == Len(s) > 0 /\ \A i \in 1..Len(s) : s[i] \in Digits

RECURSIVE LStrip(_)
LStrip(s) == IF Len(s) > 0 /\ Head(s) \in Whitespace THEN LStrip(Tail(s)) ELSE s

RECURSIVE RStrip(_)
RStrip(s) ==
    IF Len(s) > 0 /\ s[Len(s)] \in Whitespace
    THEN RStrip(SubSeq(s, 1, Len(s) - 1))
    ELSE s

\* str.strip()
Strip(s) == RStrip(LStrip(s))

\* the patron-id check shared by every operation that takes a patron id
ValidPatronId(patron_id) ==
    /\ Len(patron_id) > 0
    /\ IsDigitStr(patron_id)
    /\ Len(patron_id) = PatronIdLen

(* ---------------------------- the stores ------------------------------- *)

None == [kind |-> "none", t |-> 0]

\* a timestamp as the record store keeps it: an ISO string
IsoDate(t) == [kind |-> "iso", t |-> t]

BookIds == 1..Len(books)

\* database.get_book_by_id: the book with that id, or None
get_book_by_id(book_id) ==
    IF book_id \in BookIds THEN books[book_id] ELSE None

\* database.get_book_by_isbn: the ids of the books with that isbn
BooksWithIsbn(isbn) == {i \in BookIds : books[i].isbn = isbn}

get_book_by_isbn(isbn) ==
    IF BooksWithIsbn(isbn) = {}
    THEN None
    ELSE books[CHOOSE i \in BooksWithIsbn(isbn) : \A j \in BooksWithIsbn(isbn) : i <= j]

\* database.insert_book: the catalog with the new book appended, its id the
\* next free one
insert_book(title, author, isbn, total_copies, available_copies) ==
    Append(books, [id |-> Len(books) + 1, title |-> title, author |-> author,
                   isbn |-> isbn, total_copies |-> total_copies,
                   available_copies |-> available_copies])

\* the catalog after insert_book of a tuple of the five fields
InsertFields(f) == insert_book(f[1], f[2], f[3], f[4], f[5])

\* database.update_book_availability: available_copies changed by delta
update_book_availability(book_id, delta) ==
    [books EXCEPT ![book_id].available_copies = @ + delta]

RecordIds == 1..Len(borrow_records)

IsActive(r) == r.return_date = None

\* the ids of the active (unreturned) records of a patron
ActiveIds(patron_id) ==
    {i \in RecordIds : borrow_records[i].patron_id = patron_id
                       /\ IsActive(borrow_records[i])}

\* database.get_patron_borrow_count
get_patron_borrow_count(patron_id) == Cardinality(ActiveIds(patron_id))

\* database.get_patron_borrowed_books, as the ids of the rows it returns
get_patron_borrowed_books(patron_id) == ActiveIds(patron_id)

\* database.insert_borrow_record
insert_borrow_record(patron_id, book_id, borrow_date, due_date) ==
    Append(borrow_records,
           [id |-> Len(borrow_records) + 1, patron_id |-> patron_id,
            book_id |-> book_id, borrow_date |-> IsoDate(borrow_date),
            due_date |-> IsoDate(due_date), return_date |-> None])

\* the update with the filter on the unset return date left out: every
\* record of the pair is stamped
update_every_record_return_date(patron_id, book_id, return_date) ==
    [i \in RecordIds |->
        IF /\ borrow_records[i].patron_id = patron_id
           /\ borrow_records[i].book_id = book_id
        THEN [borrow_records[i] EXCEPT !.return_date = IsoDate(return_date)]
        ELSE borrow_records[i]]

\* database.update_borrow_record_return_date: the update is keyed by
\* (patron, book) and reaches every active record of the pair
update_borrow_record_return_date(patron_id, book_id, return_date) ==
    [i \in RecordIds |->
        IF /\ borrow_records[i].patron_id = patron_id
           /\ borrow_records[i].book_id = book_id
           /\ IsActive(borrow_records[i])
        THEN [borrow_records[i] EXCEPT !.return_date = IsoDate(return_date)]
        ELSE borrow_records[i]]

(* ---------------------------- the results ------------------------------ *)

NoFee == [fee_amount |-> 0, days_overdue |-> 0, status |-> "none"]

NoBookArgs == [title |-> <<>>, author |-> <<>>, isbn |-> <<>>,
               total_copies |-> [int |-> FALSE, v |-> 0]]

\* an optional string: Python's None, or the string v
Nothing == [some |-> FALSE, v |-> <<>>]
Some(v) == [some |-> TRUE, v |-> v]

\* the empty dict get_patron_status_report returns for an invalid patron id
EmptyReport ==
    [keys |-> {}, patron_id |-> <<>>, borrowed_books |-> <<>>,
     number_borrowed_books |-> 0, total_late_fees |-> 0, borrow_history |-> <<>>]

NoCallArgs == [transaction_id |-> Nothing, amount |-> 0,
               search_term |-> Nothing, search_type |-> ""]

\* what the last call was and what it returned: the operation, its arguments
\* (patron_id, book_id, the book fields of addBook in args, those of a refund
\* or a search in call), the success flag and message, the due date a borrow
\* reports, the fee a fee calculation returns, the transaction id a payment
\* returns, the report of getPatronStatus, the books a search found; and
\* what the call did on its way: the number of calls it made to the store
\* and the calls it made to the payment gateway, in order; raised is whether
\* the call ended in an exception instead of a return value
Outcome(op, patron_id, book_id, success, message) ==
    [op |-> op, patron_id |-> patron_id, book_id |-> book_id, args |-> NoBookArgs,
     call |-> NoCallArgs,
     success |-> success, message |-> message, due_date |-> None, fee |-> NoFee,
     transaction_id |-> Nothing, report |-> EmptyReport, found |-> <<>>,
     store_calls |-> 0, gateway_calls |-> <<>>, raised |-> FALSE]

(* --------------------------- add_book_to_catalog ----------------------- *)

\* total_copies as the caller passes it: an int, or a value of another type
IntArg(v) == [int |-> TRUE, v |-> v]
NonIntArg == [int |-> FALSE, v |-> 0]

\* the first input-validation message that applies, or "" when there is none
FieldRejection(title, author, isbn, total_copies) ==
    IF Len(title) = 0 \/ Len(Strip(title)) = 0 THEN "Title is required."
    ELSE IF Len(Strip(title)) > MaxTitleLen
        THEN "Title must be less than 200 characters."
    ELSE IF Len(author) = 0 \/ Len(Strip(author)) = 0 THEN "Author is required."
    ELSE IF Len(Strip(author)) > MaxAuthorLen
        THEN "Author must be less than 100 characters."
    ELSE IF Len(isbn) # IsbnLen THEN "ISBN must be exactly 13 digits."
    ELSE IF ~total_copies.int \/ total_copies.v <= 0
        THEN "Total copies must be a positive integer."
    ELSE ""

\* the rejection with the duplicate-isbn check left out
AddBookRejectionNoDuplicateCheck(title, author, isbn, total_copies) ==
    FieldRejection(title, author, isbn, total_copies)

\* the message add_book_to_catalog rejects the input with, or "" when it
\* goes on to insert: the input validation, then the duplicate-isbn check
AddBookRejection(title, author, isbn, total_copies) ==
    IF FieldRejection(title, author, isbn, total_copies) # ""
    THEN FieldRejection(title, author, isbn, total_copies)
    ELSE IF get_book_by_isbn(isbn) # None
        THEN "A book with this ISBN already exists."
    ELSE ""

\* the fields with the title passed on as given, not trimmed
NewBookFieldsUntrimmedTitle(title, author, isbn, total_copies) ==
    <<title, Strip(author), isbn, total_copies, total_copies>>

\* the fields add_book_to_catalog passes to insert_book: title, author,
\* isbn, total_copies, available_copies
NewBookFields(title, author, isbn, total_copies) ==
    <<Strip(title), Strip(author), isbn, total_copies, total_copies>>

\* store_calls: none when the fields are rejected, get_book_by_isbn when the
\* isbn is looked up, insert_book after it
AddBookOutcome(title, author, isbn, total_copies, success, message) ==
    [Outcome("addBook", <<>>, 0, success, message)
        EXCEPT !.args = [title |-> title, author |-> author, isbn |-> isbn,
                         total_copies |-> total_copies],
               !.store_calls =
                   IF FieldRejection(title, author, isbn, total_copies) # ""
                   THEN 0
                   ELSE IF message = "A book with this ISBN already exists."
                   THEN 1 ELSE 2]

\* add_book_to_catalog(title, author, isbn, total_copies); insert_ok is
\* whether the store's insert succeeds
AddBook(title, author, isbn, total_copies, insert_ok) ==
    LET why == AddBookRejection(title, author, isbn, total_copies)
        returns(success, message) ==
            result' = AddBookOutcome(title, author, isbn, total_copies,
                                     success, message)
    IN
    /\ UNCHANGED <<borrow_records, now, in_flight>>
    /\ IF why # ""
       THEN /\ returns(FALSE, why)
            /\ UNCHANGED <<books, nBorrowed, nReturned>>
       ELSE IF insert_ok
       THEN /\ books' = InsertFields(
                            NewBookFields(title, author, isbn, total_copies.v))
            /\ nBorrowed' = Append(nBorrowed, 0)
            /\ nReturned' = Append(nReturned, 0)
            /\ returns(TRUE, "has been successfully added to the catalog.")
       ELSE /\ returns(FALSE, "Database error occurred while adding the book.")
            /\ UNCHANGED <<books, nBorrowed, nReturned>>

(* ---------------------- calculate_late_fee_for_book -------------------- *)

DateTime(t) == [kind |-> "datetime", t |-> t]

\* the calendar day a tick falls on: datetime.date()
DateOf(t) == t \div TicksPerDay

\* parse_date: a datetime is kept, an ISO string or a day-month-year string
\* with a time is parsed to its instant, a day-month-year string without a
\* time to the midnight of its day, anything else to None
parse_date(val) ==
    IF val.kind = "none" THEN None
    ELSE IF val.kind = "datetime" THEN val
    ELSE IF val.kind \in {"iso", "dmy_time"} THEN DateTime(val.t)
    ELSE IF val.kind = "dmy" THEN DateTime(DateOf(val.t) * TicksPerDay)
    ELSE None

Max(a, b) == IF a >= b THEN a ELSE b
Min(a, b) == IF a <= b THEN a ELSE b

\* round(fee, 2), on mills
Round2(mills) == ((mills + 5) \div 10) * 10

\* the fee with the cap left out
FeeForDaysUncapped(days_overdue) ==
    IF days_overdue > 0
    THEN Min(days_overdue, TierDays) * TierOneRate
         + Max(0, days_overdue - TierDays) * TierTwoRate
    ELSE 0

\* the fee with the first tier's rate charged for every day
FeeForDaysFlatRate(days_overdue) ==
    IF days_overdue > 0
    THEN Min(MaxFee, days_overdue * TierOneRate)
    ELSE 0

\* the fee for days_overdue days, before rounding
FeeForDays(days_overdue) ==
    IF days_overdue > 0
    THEN LET first_seven_days == Min(days_overdue, TierDays)
             after_seven_days == Max(0, days_overdue - TierDays)
             fee == first_seven_days * TierOneRate + after_seven_days * TierTwoRate
         IN  IF fee > MaxFee THEN MaxFee ELSE fee
    ELSE 0

\* ORDER BY id ASC LIMIT 1: the first record of (patron, book) ever inserted
OldestId(recs, patron_id, book_id) ==
    LET ids == {i \in 1..Len(recs) : recs[i].patron_id = patron_id
                                     /\ recs[i].book_id = book_id}
    IN  IF ids = {} THEN 0 ELSE CHOOSE i \in ids : \A j \in ids : i <= j

\* the newest record of the patron, whatever its book
MostRecentIdAnyBook(recs, patron_id, book_id) ==
    LET ids == {i \in 1..Len(recs) : recs[i].patron_id = patron_id}
    IN  IF ids = {} THEN 0 ELSE CHOOSE i \in ids : \A j \in ids : j <= i

\* ORDER BY id DESC LIMIT 1 over the records of (patron, book), as an id
\* (0 when there is none)
MostRecentId(recs, patron_id, book_id) ==
    LET ids == {i \in 1..Len(recs) : recs[i].patron_id = patron_id
                                     /\ recs[i].book_id = book_id}
    IN  IF ids = {} THEN 0 ELSE CHOOSE i \in ids : \A j \in ids : j <= i

\* the fee always computed against the current date
ComparisonDateNow(return_date, clock) == DateTime(clock)

\* comparison_date = return_date if return_date else datetime.now()
ComparisonDate(return_date, clock) ==
    IF return_date # None THEN return_date ELSE DateTime(clock)

\* the fee of one stored row at the instant clock
FeeOfRow(row, clock) ==
    LET borrow_date == parse_date(row.borrow_date)
        parsed_due == parse_date(row.due_date)
        return_date == parse_date(row.return_date)
        due_date == IF parsed_due = None /\ borrow_date # None
                    THEN DateTime(borrow_date.t + LoanDays * TicksPerDay)
                    ELSE parsed_due
        comparison_date == ComparisonDate(return_date, clock)
    IN  IF due_date = None
        THEN [fee_amount |-> 0, days_overdue |-> 0, status |-> "No due date"]
        ELSE LET days_overdue ==
                     Max(0, DateOf(comparison_date.t) - DateOf(due_date.t))
             IN  [fee_amount |-> Round2(FeeForDays(days_overdue)),
                  days_overdue |-> days_overdue,
                  status |-> IF days_overdue > 0 THEN "Overdue" ELSE "On time"]

\* calculate_late_fee_for_book over the records recs at the instant clock
calculate_late_fee_for_book(recs, clock, patron_id, book_id) ==
    IF ~ValidPatronId(patron_id)
    THEN [fee_amount |-> 0, days_overdue |-> 0, status |-> "Invalid patron ID"]
    ELSE LET id == MostRecentId(recs, patron_id, book_id) IN
         IF id = 0
         THEN [fee_amount |-> 0, days_overdue |-> 0, status |-> "No borrow record"]
         ELSE FeeOfRow(recs[id], clock)

\* the store calls of calculate_late_fee_for_book: none for an invalid
\* patron id, else the one query
FeeStoreCalls(patron_id) == IF ValidPatronId(patron_id) THEN 1 ELSE 0

\* a call of calculate_late_fee_for_book
CalculateLateFee(patron_id, book_id) ==
    /\ result' = [Outcome("calculateLateFee", patron_id, book_id, TRUE, "")
                    EXCEPT !.fee = calculate_late_fee_for_book(
                                       borrow_records, now, patron_id, book_id),
                           !.store_calls = FeeStoreCalls(patron_id)]
    /\ UNCHANGED <<books, borrow_records, now, nBorrowed, nReturned, in_flight>>

(* -------------------------- borrow_book_by_patron ---------------------- *)

\* a due date one week after the borrow date
DueDateOneWeek(borrow_date) == borrow_date + 7 * TicksPerDay

\* due_date = borrow_date + timedelta(days=14)
DueDate(borrow_date) == borrow_date + LoanDays * TicksPerDay

\* the records with the insert undone when the availability update fails
RecordsAfterInsertRolledBack(patron_id, book_id, borrow_date, due_date, update_ok) ==
    IF update_ok
    THEN insert_borrow_record(patron_id, book_id, borrow_date, due_date)
    ELSE borrow_records

\* the records once insert_borrow_record has succeeded: the new record stays,
\* whether the availability update after it succeeds (update_ok) or not
RecordsAfterInsert(patron_id, book_id, borrow_date, due_date, update_ok) ==
    insert_borrow_record(patron_id, book_id, borrow_date, due_date)

\* the limit check as the fix would have it: five books at most
OverLimitAtFive(current_borrowed) == current_borrowed >= BorrowLimit

\* if current_borrowed > 5
OverLimit(current_borrowed) == current_borrowed > BorrowLimit

\* borrow_book_by_patron(patron_id, book_id); insert_ok and update_ok are
\* whether the record insert and the availability update succeed
BorrowBook(patron_id, book_id, insert_ok, update_ok) ==
    LET book == get_book_by_id(book_id)
        borrow_date == now
        due_date == DueDate(borrow_date)
        fail(message, calls) ==
            result' = [Outcome("borrowBook", patron_id, book_id, FALSE, message)
                         EXCEPT !.store_calls = calls]
    IN
    /\ UNCHANGED <<now, in_flight>>
    /\ IF ~ValidPatronId(patron_id)
       THEN /\ fail("Invalid patron ID. Must be exactly 6 digits.", 0)
            /\ UNCHANGED <<books, borrow_records, nBorrowed, nReturned>>
       ELSE IF book = None
       THEN /\ fail("Book not found.", 1)
            /\ UNCHANGED <<books, borrow_records, nBorrowed, nReturned>>
       ELSE IF book.available_copies <= 0
       THEN /\ fail("This book is currently not available.", 1)
            /\ UNCHANGED <<books, borrow_records, nBorrowed, nReturned>>
       ELSE IF OverLimit(get_patron_borrow_count(patron_id))
       THEN /\ fail("You have reached the maximum borrowing limit of 5 books.", 2)
            /\ UNCHANGED <<books, borrow_records, nBorrowed, nReturned>>
       ELSE IF ~insert_ok
       THEN /\ fail("Database error occurred while creating borrow record.", 3)
            /\ UNCHANGED <<books, borrow_records, nBorrowed, nReturned>>
       ELSE /\ borrow_records' =
                   RecordsAfterInsert(patron_id, book_id, borrow_date, due_date,
                                      update_ok)
            /\ IF ~update_ok
               THEN /\ fail("Database error occurred while updating book availability.", 4)
                    /\ UNCHANGED <<books, nBorrowed, nReturned>>
               ELSE /\ books' = update_book_availability(book_id, -1)
                    /\ nBorrowed' = [nBorrowed EXCEPT ![book_id] = @ + 1]
                    /\ UNCHANGED nReturned
                    /\ result' = [Outcome("borrowBook", patron_id, book_id, TRUE,
                                          "Successfully borrowed")
                                    EXCEPT !.due_date = DateTime(due_date),
                                           !.store_calls = 4]

(* -------------------------- return_book_by_patron ---------------------- *)

\* the records with the return date unset again when the availability update
\* fails
RecordsAfterReturnRolledBack(patron_id, book_id, return_date, update_ok) ==
    IF update_ok
    THEN update_borrow_record_return_date(patron_id, book_id, return_date)
    ELSE borrow_records

\* the records once update_borrow_record_return_date has succeeded: the return
\* date stays, whether the availability update after it succeeds or not
RecordsAfterReturn(patron_id, book_id, return_date, update_ok) ==
    update_borrow_record_return_date(patron_id, book_id, return_date)

\* the active records on the book, whoever holds them
MatchingAnyPatron(patron_id, book_id) ==
    {i \in RecordIds : /\ IsActive(borrow_records[i])
                       /\ borrow_records[i].book_id = book_id}

\* the patron's active records, the filter on the book left out
MatchingAnyBook(patron_id, book_id) == get_patron_borrowed_books(patron_id)

\* matching = [r for r in active_borrows if r.get('book_id') == book_id]
Matching(patron_id, book_id) ==
    {i \in get_patron_borrowed_books(patron_id) :
        borrow_records[i].book_id = book_id}

\* return_book_by_patron(patron_id, book_id); record_ok and update_ok are
\* whether the return-date update and the availability update succeed
ReturnBook(patron_id, book_id, record_ok, update_ok) ==
    LET book == get_book_by_id(book_id)
        matching == Matching(patron_id, book_id)
        fail(message, calls) ==
            result' = [Outcome("returnBook", patron_id, book_id, FALSE, message)
                         EXCEPT !.store_calls = calls]
    IN
    /\ UNCHANGED <<now, in_flight>>
    /\ IF ~ValidPatronId(patron_id)
       THEN /\ fail("Invalid patron ID. Must be exactly 6 digits.", 0)
            /\ UNCHANGED <<books, borrow_records, nBorrowed, nReturned>>
       ELSE IF book = None
       THEN /\ fail("Book not found.", 1)
            /\ UNCHANGED <<books, borrow_records, nBorrowed, nReturned>>
       ELSE IF matching = {}
       THEN /\ fail("Book not borrowed by patron", 2)
            /\ UNCHANGED <<books, borrow_records, nBorrowed, nReturned>>
       ELSE IF ~record_ok
       THEN /\ fail("Could not record return", 3)
            /\ UNCHANGED <<books, borrow_records, nBorrowed, nReturned>>
       ELSE /\ borrow_records' =
                   RecordsAfterReturn(patron_id, book_id, now, update_ok)
            /\ IF ~update_ok
               THEN /\ fail("Could not update availability", 4)
                    /\ UNCHANGED <<books, nBorrowed, nReturned>>
               ELSE /\ books' = update_book_availability(book_id, 1)
                    /\ nReturned' = [nReturned EXCEPT ![book_id] = @ + 1]
                    /\ UNCHANGED nBorrowed
                    /\ LET fee_info == calculate_late_fee_for_book(
                                           borrow_records', now, patron_id, book_id)
                       IN  result' =
                             [Outcome("returnBook", patron_id, book_id, TRUE,
                                      IF fee_info.fee_amount > 0
                                      THEN "Returned successfully. Late fee"
                                      ELSE "Returned successfully")
                                EXCEPT !.fee = fee_info,
                                       !.store_calls = 4 + FeeStoreCalls(patron_id)]

(* --------------------------- the payment gateway ----------------------- *)

TxnPrefix == <<"t", "x", "n", "_">>
Txn1 == TxnPrefix \o <<"1">>

\* what a call of the gateway may do: process_payment returns (True, id,
\* message) or (False, "", message), refund_payment (True, message) or (False,
\* message), and either may raise
GatewayReplies ==
    {[kind |-> "approved", transaction_id |-> Some(Txn1)],
     [kind |-> "declined", transaction_id |-> Some(<<>>)],
     [kind |-> "raised", transaction_id |-> Nothing]}

\* a call made to the gateway, and what the gateway did
GatewayCall(method, patron_id, transaction_id, amount, description, reply) ==
    [method |-> method, patron_id |-> patron_id,
     transaction_id |-> transaction_id, amount |-> amount,
     description |-> description, reply |-> reply.kind]

(* ------------------------------ pay_late_fees -------------------------- *)

\* the check with a fee of zero let through
NothingToPayBelowZero(fee_amount) == fee_amount < 0

\* if fee_amount <= 0
NothingToPay(fee_amount) == fee_amount <= 0

\* the result with the gateway's transaction id passed on whatever it replied
PaymentResultKeepsId(reply) ==
    [success |-> reply.kind = "approved",
     message |-> IF reply.kind = "approved" THEN "Payment successful!"
                 ELSE IF reply.kind = "declined" THEN "Payment failed:"
                 ELSE "Payment processing error:",
     transaction_id |-> reply.transaction_id,
     raised |-> FALSE]

\* what pay_late_fees returns for the gateway's reply
PaymentResult(reply) ==
    IF reply.kind = "approved"
    THEN [success |-> TRUE, message |-> "Payment successful!",
          transaction_id |-> reply.transaction_id, raised |-> FALSE]
    ELSE IF reply.kind = "declined"
    THEN [success |-> FALSE, message |-> "Payment failed:",
          transaction_id |-> Nothing, raised |-> FALSE]
    ELSE [success |-> FALSE, message |-> "Payment processing error:",
          transaction_id |-> Nothing, raised |-> FALSE]

\* the records with an approved payment settling the fee: the due date of
\* the pair's newest record moved to today
RecordsAfterPaymentSettled(patron_id, book_id, reply) ==
    LET id == MostRecentId(borrow_records, patron_id, book_id) IN
    IF reply.kind = "approved" /\ id # 0
    THEN [borrow_records EXCEPT ![id].due_date = IsoDate(now)]
    ELSE borrow_records

\* the records once pay_late_fees is through: it writes nothing to the
\* store, whatever the gateway replied
RecordsAfterPayment(patron_id, book_id, reply) == borrow_records

\* pay_late_fees(patron_id, book_id, payment_gateway); reply is what the
\* gateway does when it is called
PayLateFees(patron_id, book_id, reply) ==
    LET fee_info == calculate_late_fee_for_book(
                        borrow_records, now, patron_id, book_id)
        fee_amount == fee_info.fee_amount
        book == get_book_by_id(book_id)
        fail(message, calls) ==
            result' = [Outcome("payLateFees", patron_id, book_id, FALSE, message)
                         EXCEPT !.store_calls = calls]
    IN
    /\ UNCHANGED <<books, now, nBorrowed, nReturned, in_flight>>
    /\ borrow_records' = RecordsAfterPayment(patron_id, book_id, reply)
    /\ IF ~ValidPatronId(patron_id)
       THEN fail("Invalid patron ID. Must be exactly 6 digits.", 0)
       ELSE IF NothingToPay(fee_amount)
       THEN fail("No late fees to pay for this book.", FeeStoreCalls(patron_id))
       ELSE IF book = None
       THEN fail("Book not found.", FeeStoreCalls(patron_id) + 1)
       ELSE LET returned == PaymentResult(reply) IN
            result' =
              [Outcome("payLateFees", patron_id, book_id,
                       returned.success, returned.message)
                 EXCEPT !.transaction_id = returned.transaction_id,
                        !.raised = returned.raised,
                        !.fee = fee_info,
                        !.store_calls = FeeStoreCalls(patron_id) + 1,
                        !.gateway_calls =
                            <<GatewayCall("process_payment", patron_id, Nothing,
                                          fee_amount, book.title, reply)>>]

(* ------------------------- refund_late_fee_payment --------------------- *)

\* s.startswith(prefix)
StartsWith(s, prefix) ==
    /\ Len(s) >= Len(prefix)
    /\ SubSeq(s, 1, Len(prefix)) = prefix

\* the input checks with the check against the greatest late fee left out
RefundRejectionNoCap(transaction_id, amount) ==
    IF ~transaction_id.some \/ transaction_id.v = <<>>
       \/ ~StartsWith(transaction_id.v, TxnPrefix)
    THEN "Invalid transaction ID."
    ELSE IF amount <= 0 THEN "Refund amount must be greater than 0."
    ELSE ""

\* the first input check of refund_late_fee_payment that fails, or "" when
\* there is none; amount in mills
RefundRejection(transaction_id, amount) ==
    IF ~transaction_id.some \/ transaction_id.v = <<>>
       \/ ~StartsWith(transaction_id.v, TxnPrefix)
    THEN "Invalid transaction ID."
    ELSE IF amount <= 0 THEN "Refund amount must be greater than 0."
    ELSE IF amount > MaxFee THEN "Refund amount exceeds maximum late fee."
    ELSE ""

\* refund_late_fee_payment(transaction_id, amount, payment_gateway); reply is
\* what the gateway does when it is called
RefundLateFeePayment(transaction_id, amount, reply) ==
    LET why == RefundRejection(transaction_id, amount)
        returns(success, message, calls) ==
            result' = [Outcome("refundLateFeePayment", <<>>, 0, success, message)
                         EXCEPT !.call = [NoCallArgs EXCEPT
                                            !.transaction_id = transaction_id,
                                            !.amount = amount],
                                !.gateway_calls = calls]
        called == <<GatewayCall("refund_payment", <<>>, transaction_id,
                                amount, <<>>, reply)>>
    IN
    /\ UNCHANGED <<books, borrow_records, now, nBorrowed, nReturned, in_flight>>
    /\ IF why # "" THEN returns(FALSE, why, <<>>)
       ELSE IF reply.kind = "approved"
       THEN returns(TRUE, "Refund processed", called)
       ELSE IF reply.kind = "declined"
       THEN returns(FALSE, "Refund failed:", called)
       ELSE returns(FALSE, "Refund processing error:", called)

(* ------------------------- search_books_in_catalog --------------------- *)

UpperCase == <<"A", "B", "C", "D", "E", "F", "G", "H", "I", "J", "K", "L", "M",
               "N", "O", "P", "Q", "R", "S", "T", "U", "V", "W", "X", "Y", "Z">>
LowerCase == <<"a", "b", "c", "d", "e", "f", "g", "h", "i", "j", "k", "l", "m",
               "n", "o", "p", "q", "r", "s", "t", "u", "v", "w", "x", "y", "z">>

\* str.lower()
Lower(s) ==
    [i \in 1..Len(s) |->
        IF \E k \in 1..Len(UpperCase) : UpperCase[k] = s[i]
        THEN LowerCase[CHOOSE k \in 1..Len(UpperCase) : UpperCase[k] = s[i]]
        ELSE s[i]]

\* sub in s
Contains(s, sub) ==
    \E i \in 0..(Len(s) - Len(sub)) : SubSeq(s, i + 1, i + Len(sub)) = sub

\* the match with the title and the author compared as they are written
MatchesCaseSensitive(b, search, search_type) ==
    IF search_type = "isbn" THEN b.isbn = search
    ELSE IF search_type = "title" THEN Contains(b.title, search)
    ELSE IF search_type = "author" THEN Contains(b.author, search)
    ELSE Contains(b.title, search) \/ Contains(b.author, search)

\* whether the book b is among the results for the stripped term search
Matches(b, search, search_type) ==
    LET search_lower == Lower(search) IN
    IF search_type = "isbn" THEN b.isbn = search
    ELSE IF search_type = "title" THEN Contains(Lower(b.title), search_lower)
    ELSE IF search_type = "author" THEN Contains(Lower(b.author), search_lower)
    ELSE \/ Contains(Lower(b.title), search_lower)
         \/ Contains(Lower(b.author), search_lower)

\* get_all_books(): the catalog in its own order
get_all_books == books

\* search_books_in_catalog(search_term, search_type); search_term is None or
\* a string
SearchBooks(search_term, search_type) ==
    LET search == Strip(search_term.v)
        Selected(b) == Matches(b, search, search_type)
        returns(found, calls) ==
            result' = [Outcome("searchBooks", <<>>, 0, TRUE, "")
                         EXCEPT !.call = [NoCallArgs EXCEPT
                                            !.search_term = search_term,
                                            !.search_type = search_type],
                                !.found = found,
                                !.store_calls = calls]
    IN
    /\ UNCHANGED <<books, borrow_records, now, nBorrowed, nReturned, in_flight>>
    /\ IF ~search_term.some THEN returns(<<>>, 0)
       ELSE IF search = <<>> THEN returns(<<>>, 0)
       ELSE returns(SelectSeq(get_all_books, Selected), 1)

(* ------------------------- get_patron_status_report -------------------- *)

\* the ids of a set in ascending order
RECURSIVE Ascending(_)
Ascending(ids) ==
    IF ids = {} THEN <<>>
    ELSE LET least == CHOOSE i \in ids : \A j \in ids : i <= j
         IN  <<least>> \o Ascending(ids \ {least})

\* the patron's returned records joined with their books, ORDER BY
\* return_date DESC (records returned at the same instant in id order), as ids
RECURSIVE LatestFirst(_)
LatestFirst(ids) ==
    IF ids = {} THEN <<>>
    ELSE LET latest ==
                 CHOOSE i \in ids : \A j \in ids :
                     \/ borrow_records[i].return_date.t > borrow_records[j].return_date.t
                     \/ /\ borrow_records[i].return_date.t = borrow_records[j].return_date.t
                        /\ i <= j
         IN  <<latest>> \o LatestFirst(ids \ {latest})

ReturnedIds(patron_id) ==
    {i \in RecordIds : /\ borrow_records[i].patron_id = patron_id
                       /\ ~IsActive(borrow_records[i])
                       /\ get_book_by_id(borrow_records[i].book_id) # None}

\* datetime.fromisoformat on a stored string, a datetime kept as it is
FromIso(val) ==
    IF val.kind \in {"iso", "datetime"} THEN DateTime(val.t)
    ELSE [kind |-> "raises", t |-> 0]

\* the row of borrowed_books for the active record rec
BorrowedRow(rec, patron_id) ==
    LET fee_info == calculate_late_fee_for_book(
                        borrow_records, now, patron_id, rec.book_id)
    IN  [book_id |-> rec.book_id,
         title |-> get_book_by_id(rec.book_id).title,
         author |-> get_book_by_id(rec.book_id).author,
         borrow_date |-> rec.borrow_date,
         due_date |-> rec.due_date,
         days_overdue |-> fee_info.days_overdue,
         current_fee |-> fee_info.fee_amount]

\* the row of borrow_history for the returned record r: the key borrow_date
\* is written three times, the return date last
HistoryRow(r) ==
    [record_id |-> r.id, book_id |-> r.book_id,
     title |-> get_book_by_id(r.book_id).title,
     author |-> get_book_by_id(r.book_id).author,
     borrow_date |-> FromIso(r.return_date)]

\* the total with each fee written over the one before: total_fees = fee
TotalFeesLastRow(rows) ==
    IF rows = <<>> THEN 0 ELSE rows[Len(rows)].current_fee

\* total_fees += fee over the rows
RECURSIVE TotalFees(_)
TotalFees(rows) ==
    IF rows = <<>> THEN 0 ELSE rows[1].current_fee + TotalFees(Tail(rows))

ReportKeys == {"patron_id", "borrowed_books", "number_borrowed_books",
               "total_late_fees", "borrow_history"}

\* the report of a valid patron
StatusReport(patron_id) ==
    LET active_borrow == Ascending(get_patron_borrowed_books(patron_id))
        borrowed_books ==
            [k \in 1..Len(active_borrow) |->
                BorrowedRow(borrow_records[active_borrow[k]], patron_id)]
        rows == LatestFirst(ReturnedIds(patron_id))
        history == [k \in 1..Len(rows) |-> HistoryRow(borrow_records[rows[k]])]
    IN  [keys |-> ReportKeys,
         patron_id |-> patron_id,
         borrowed_books |-> borrowed_books,
         number_borrowed_books |-> Len(borrowed_books),
         total_late_fees |-> Round2(TotalFees(borrowed_books)),
         borrow_history |-> history]

\* get_patron_status_report(patron_id); the store is called for the active
\* borrows, once per active borrow for its fee, and for the history; a stored
\* date fromisoformat cannot read ends the call in a ValueError
GetPatronStatus(patron_id) ==
    /\ UNCHANGED <<books, borrow_records, now, nBorrowed, nReturned, in_flight>>
    /\ IF ~ValidPatronId(patron_id)
       THEN result' = Outcome("getPatronStatus", patron_id, 0, TRUE, "")
       ELSE LET report == StatusReport(patron_id) IN
            IF \E k \in 1..Len(report.borrow_history) :
                   report.borrow_history[k].borrow_date.kind = "raises"
            THEN result' = [Outcome("getPatronStatus", patron_id, 0, FALSE, "")
                              EXCEPT !.raised = TRUE,
                                     !.store_calls =
                                         2 + report.number_borrowed_books]
            ELSE result' = [Outcome("getPatronStatus", patron_id, 0, TRUE, "")
                              EXCEPT !.report = report,
                                     !.store_calls =
                                         2 + report.number_borrowed_books]

(* ------------- borrow_book_by_patron, one store call at a time ---------- *)

\* the callers whose calls of borrow_book_by_patron may be under way
Callers == 1..MaxCallers

\* a caller with no call under way
Idle == [pc |-> "idle", patron_id |-> <<>>, book_id |-> 0, available_seen |-> 0,
         due_date |-> 0]

\* the availability written from the copy of the book the call read earlier
AvailabilityFromSnapshot(call) ==
    [books EXCEPT ![call.book_id].available_copies = call.available_seen - 1]

\* update_book_availability(book_id, -1) as the call under way makes it
AvailabilityAfterBorrow(call) == update_book_availability(call.book_id, -1)

\* the call of caller c ends with (success, message) after calls store calls
BorrowEnds(c, success, message, calls) ==
    /\ in_flight' = [in_flight EXCEPT ![c].pc = "done"]
    /\ result' = [Outcome("borrowBook", in_flight[c].patron_id,
                          in_flight[c].book_id, success, message)
                    EXCEPT !.store_calls = calls,
                           !.due_date = IF success
                                        THEN DateTime(in_flight[c].due_date)
                                        ELSE None]

\* caller c calls borrow_book_by_patron(patron_id, book_id): the patron id is
\* checked
BorrowBegins(c, patron_id, book_id) ==
    /\ in_flight[c].pc = "idle"
    /\ UNCHANGED <<books, borrow_records, now, nBorrowed, nReturned>>
    /\ IF ~ValidPatronId(patron_id)
       THEN /\ in_flight' = [in_flight EXCEPT ![c] =
                               [Idle EXCEPT !.pc = "done",
                                            !.patron_id = patron_id,
                                            !.book_id = book_id]]
            /\ result' = Outcome("borrowBook", patron_id, book_id, FALSE,
                                 "Invalid patron ID. Must be exactly 6 digits.")
       ELSE /\ in_flight' = [in_flight EXCEPT ![c] =
                               [Idle EXCEPT !.pc = "get_book_by_id",
                                            !.patron_id = patron_id,
                                            !.book_id = book_id]]
            /\ UNCHANGED result

\* the call of caller c reads the book and checks its availability
BorrowReadsBook(c) ==
    LET call == in_flight[c]
        book == get_book_by_id(call.book_id)
    IN
    /\ call.pc = "get_book_by_id"
    /\ UNCHANGED <<books, borrow_records, now, nBorrowed, nReturned>>
    /\ IF book = None THEN BorrowEnds(c, FALSE, "Book not found.", 1)
       ELSE IF book.available_copies <= 0
       THEN BorrowEnds(c, FALSE, "This book is currently not available.", 1)
       ELSE /\ in_flight' = [in_flight EXCEPT
                               ![c].pc = "get_patron_borrow_count",
                               ![c].available_seen = book.available_copies]
            /\ UNCHANGED result

\* the call of caller c counts the patron's borrows and checks the limit
BorrowCounts(c) ==
    LET call == in_flight[c] IN
    /\ call.pc = "get_patron_borrow_count"
    /\ UNCHANGED <<books, borrow_records, now, nBorrowed, nReturned>>
    /\ IF OverLimit(get_patron_borrow_count(call.patron_id))
       THEN BorrowEnds(c, FALSE,
                "You have reached the maximum borrowing limit of 5 books.", 2)
       ELSE /\ in_flight' = [in_flight EXCEPT ![c].pc = "insert_borrow_record"]
            /\ UNCHANGED result

\* the call of caller c inserts its borrow record
BorrowInserts(c) ==
    LET call == in_flight[c]
        borrow_date == now
        due_date == DueDate(borrow_date)
    IN
    /\ call.pc = "insert_borrow_record"
    /\ borrow_records' = insert_borrow_record(call.patron_id, call.book_id,
                                              borrow_date, due_date)
    /\ in_flight' = [in_flight EXCEPT ![c].pc = "update_book_availability",
                                      ![c].due_date = due_date]
    /\ UNCHANGED <<books, now, result, nBorrowed, nReturned>>

\* the call of caller c decrements the availability and returns
BorrowUpdates(c) ==
    LET call == in_flight[c] IN
    /\ call.pc = "update_book_availability"
    /\ books' = AvailabilityAfterBorrow(call)
    /\ nBorrowed' = [nBorrowed EXCEPT ![call.book_id] = @ + 1]
    /\ BorrowEnds(c, TRUE, "Successfully borrowed", 4)
    /\ UNCHANGED <<borrow_records, now, nReturned>>

(* ------------------------------- the clock ----------------------------- *)

\* the wall clock (datetime.now()) moves on by one tick
Tick ==
    /\ now' = now + 1
    /\ result' = Outcome("tick", <<>>, 0, TRUE, "")
    /\ UNCHANGED <<books, borrow_records, nBorrowed, nReturned, in_flight>>

\* the wall clock moves on by a number of ticks
Advance(ticks) ==
    /\ now' = now + ticks
    /\ result' = Outcome("tick", <<>>, 0, TRUE, "")
    /\ UNCHANGED <<books, borrow_records, nBorrowed, nReturned, in_flight>>

(* --------------------------- the specifications ------------------------ *)

Patron1 == <<"1", "2", "3", "4", "5", "6">>
Patron2 == <<"6", "5", "4", "3", "2", "1">>
\* a patron id the validation rejects
BadPatron == <<"1", "2", "3", "a", "b", "c">>

Isbn1 == Rep("1", IsbnLen)
Isbn2 == Rep("2", IsbnLen)

Dune == <<"D", "u", "n", "e">>
Herbert == <<"H", "e", "r", "b", "e", "r", "t">>

\* the book ids a caller may pass: those of the catalog and one unknown
CallableBookIds == 1..(Len(books) + 1)

\* an empty library, the clock at any of its first ticks
Init ==
    /\ books = <<>>
    /\ borrow_records = <<>>
    /\ now \in 0..MaxTick
    /\ result = Outcome("init", <<>>, 0, TRUE, "")
    /\ nBorrowed = <<>>
    /\ nReturned = <<>>
    /\ in_flight = [c \in Callers |-> Idle]

\* the lending operations over a store whose calls all succeed
Next ==
    \/ /\ Len(books) < MaxBooks
       /\ \E isbn \in {Isbn1, Isbn2}, copies \in {1, 2} :
             AddBook(Dune, Herbert, isbn, IntArg(copies), TRUE)
    \/ /\ Len(borrow_records) < MaxRecords
       /\ \E p \in {Patron1, Patron2, BadPatron}, b \in CallableBookIds :
             BorrowBook(p, b, TRUE, TRUE)
    \/ \E p \in {Patron1, Patron2, BadPatron}, b \in CallableBookIds :
          ReturnBook(p, b, TRUE, TRUE)

Spec == Init /\ [][Next]_vars

\* the lending operations over a store each of whose calls may fail
FailNext ==
    \/ /\ Len(books) < MaxBooks
       /\ \E isbn \in {Isbn1, Isbn2}, insert_ok \in BOOLEAN :
             AddBook(Dune, Herbert, isbn, IntArg(1), insert_ok)
    \/ /\ Len(borrow_records) < MaxFailRecords
       /\ \E p \in {Patron1, Patron2}, b \in CallableBookIds,
             insert_ok \in BOOLEAN, update_ok \in BOOLEAN :
             BorrowBook(p, b, insert_ok, update_ok)
    \/ \E p \in {Patron1, Patron2}, b \in CallableBookIds,
          record_ok \in BOOLEAN, update_ok \in BOOLEAN :
          ReturnBook(p, b, record_ok, update_ok)

FailSpec == Init /\ [][FailNext]_vars

\* one patron borrowing and returning in a catalog of books of four copies;
\* a borrow may be tried at any time, the record store holding at most
\* MaxLimitRecords records
LimitNext ==
    \/ /\ Len(books) < MaxBooks
       /\ \E isbn \in {Isbn1, Isbn2} :
             AddBook(Dune, Herbert, isbn, IntArg(4), TRUE)
    \/ /\ \E b \in CallableBookIds : BorrowBook(Patron1, b, TRUE, TRUE)
       /\ Len(borrow_records') <= MaxLimitRecords
    \/ \E b \in CallableBookIds : ReturnBook(Patron1, b, TRUE, TRUE)

\* an empty library, the clock at its first tick
InitAtZero ==
    /\ Init
    /\ now = 0

LimitSpec == InitAtZero /\ [][LimitNext]_vars

PaddedTitle == <<" ">> \o Dune \o <<" ", "\n">>
PaddedAuthor == <<"\t">> \o Herbert \o <<" ">>
IsbnLetters == Rep("X", IsbnLen)

\* inputs add_book_to_catalog's validation accepts: title and author padded
\* with whitespace, or both of the greatest length; isbns of thirteen digits
\* or of thirteen letters
AcceptedArgs ==
    {<<PaddedTitle, PaddedAuthor, i, IntArg(c)>> :
        i \in {Isbn1, IsbnLetters}, c \in {1, 2}}
    \cup {<<Rep("A", MaxTitleLen), Rep("B", MaxAuthorLen), i, IntArg(1)>> :
        i \in {Isbn1, IsbnLetters}}

\* inputs with one field out of range (blank or too long a title or author, too
\* short or too long an isbn, copies zero, negative or not an int), and one
\* with every field out of range
RejectedArgs ==
    {<<t, PaddedAuthor, Isbn1, IntArg(1)>> :
        t \in {<<" ", " ">>, <<>>, Rep("A", MaxTitleLen + 1)}}
    \cup {<<PaddedTitle, a, Isbn1, IntArg(1)>> :
        a \in {<<" ">>, <<>>, Rep("B", MaxAuthorLen + 1)}}
    \cup {<<PaddedTitle, PaddedAuthor, i, IntArg(1)>> :
        i \in {Rep("1", IsbnLen - 1), Rep("1", IsbnLen + 1)}}
    \cup {<<PaddedTitle, PaddedAuthor, Isbn1, c>> :
        c \in {IntArg(0), IntArg(-1), NonIntArg}}
    \cup {<<<<>>, <<>>, <<>>, NonIntArg>>}

\* the catalog operations on every kind of input, beside one patron lending
CatalogNext ==
    \/ /\ Len(books) < MaxBooks
       /\ \/ \E a \in AcceptedArgs, insert_ok \in BOOLEAN :
                AddBook(a[1], a[2], a[3], a[4], insert_ok)
          \/ \E a \in RejectedArgs : AddBook(a[1], a[2], a[3], a[4], TRUE)
    \/ /\ Len(borrow_records) < MaxCatalogRecords
       /\ \E b \in BookIds : BorrowBook(Patron1, b, TRUE, TRUE)
    \/ \E b \in BookIds : ReturnBook(Patron1, b, TRUE, TRUE)

CatalogSpec == Init /\ [][CatalogNext]_vars

\* the stored (borrow_date, due_date) of a record borrowed at tick t: as
\* borrowBook stores it, and as externally authored data may hold it
StoredDates(t) ==
    LET due == t + LoanDays * TicksPerDay IN
    {<<IsoDate(t), IsoDate(due)>>,
     <<IsoDate(t), [kind |-> "dmy", t |-> due]>>,
     <<[kind |-> "dmy_time", t |-> t], [kind |-> "bad", t |-> 0]>>,
     <<IsoDate(t), None>>,
     <<[kind |-> "bad", t |-> 0], [kind |-> "bad", t |-> 0]>>}

\* one book lent once to Patron1, the clock at the tick of the borrow
FeeInit ==
    /\ books = <<[id |-> 1, title |-> Dune, author |-> Herbert, isbn |-> Isbn1,
                  total_copies |-> 1, available_copies |-> 0]>>
    /\ \E t \in 0..MaxBorrowTick : \E d \in StoredDates(t) :
          /\ borrow_records = <<[id |-> 1, patron_id |-> Patron1, book_id |-> 1,
                                 borrow_date |-> d[1], due_date |-> d[2],
                                 return_date |-> None]>>
          /\ now = t
    /\ result = Outcome("init", <<>>, 0, TRUE, "")
    /\ nBorrowed = <<1>>
    /\ nReturned = <<0>>
    /\ in_flight = [c \in Callers |-> Idle]

\* the clock moves on; the fee is asked for; the book is returned
FeeNext ==
    \/ /\ now < MaxFeeDay * TicksPerDay
       /\ Tick
    \/ \E p \in {Patron1, BadPatron}, b \in CallableBookIds :
          CalculateLateFee(p, b)
    \/ ReturnBook(Patron1, 1, TRUE, TRUE)

FeeSpec == FeeInit /\ [][FeeNext]_vars

\* patron ids the validation rejects for their length
ShortPatron == <<"1", "2", "3", "4", "5">>
LongPatron == Patron1 \o <<"7">>
NoPatron == <<>>

\* the arguments of refund_late_fee_payment: transaction ids missing, empty,
\* without the prefix, the prefix alone and well formed; amounts in mills
\* below zero, zero, one cent, the greatest late fee and one cent above it
RefundIds == {Nothing, Some(<<>>), Some(<<"a", "b", "c">>),
              Some(<<"t", "x", "n">>), Some(TxnPrefix), Some(Txn1)}
RefundAmounts == {-1000, 0, 10, MaxFee, MaxFee + 10}

\* every operation whose input is validated, on inputs the validation accepts
\* and on inputs it rejects
ValidationNext ==
    \/ /\ Len(books) < MaxBooks
       /\ \E a \in RejectedArgs
                   \cup {<<PaddedTitle, PaddedAuthor, i, IntArg(1)>> :
                            i \in {Isbn1, IsbnLetters}} :
             AddBook(a[1], a[2], a[3], a[4], TRUE)
    \/ \E p \in {Patron1, BadPatron, ShortPatron, LongPatron, NoPatron},
          b \in CallableBookIds :
          \/ /\ Len(borrow_records) < MaxCatalogRecords
             /\ BorrowBook(p, b, TRUE, TRUE)
          \/ ReturnBook(p, b, TRUE, TRUE)
          \/ CalculateLateFee(p, b)
          \/ \E reply \in GatewayReplies : PayLateFees(p, b, reply)
          \/ GetPatronStatus(p)
    \/ \E t \in RefundIds, amount \in RefundAmounts, reply \in GatewayReplies :
          RefundLateFeePayment(t, amount, reply)

ValidationSpec == Init /\ [][ValidationNext]_vars

\* one book of one copy lent to Patron1 in the first ticks, the clock running
\* past the due date, the fee asked for and paid through a gateway that
\* approves, declines or raises; refunds beside it
PayNext ==
    \/ /\ books = <<>>
       /\ AddBook(Dune, Herbert, Isbn1, IntArg(1), TRUE)
    \/ /\ Len(borrow_records) < MaxPayRecords
       /\ now <= MaxBorrowTick
       /\ \E b \in CallableBookIds : BorrowBook(Patron1, b, TRUE, TRUE)
    \/ \E b \in BookIds : ReturnBook(Patron1, b, TRUE, TRUE)
    \/ /\ now < MaxPayDay * TicksPerDay
       /\ Tick
    \/ \E b \in BookIds : CalculateLateFee(Patron1, b)
    \/ \E p \in {Patron1, BadPatron}, b \in CallableBookIds,
          reply \in GatewayReplies : PayLateFees(p, b, reply)
    \/ \E t \in {Nothing, Some(Txn1)}, reply \in GatewayReplies :
          RefundLateFeePayment(t, TierOneRate, reply)

PaySpec == Init /\ [][PayNext]_vars

\* refunds on every kind of transaction id and amount, through a gateway that
\* approves, declines or raises, beside a catalog that grows
RefundNext ==
    \/ /\ Len(books) < MaxBooks
       /\ \E isbn \in {Isbn1, Isbn2} :
             AddBook(Dune, Herbert, isbn, IntArg(1), TRUE)
    \/ \E t \in RefundIds, amount \in RefundAmounts, reply \in GatewayReplies :
          RefundLateFeePayment(t, amount, reply)

RefundSpec == Init /\ [][RefundNext]_vars

\* every operation, on one book of two copies and one patron, the clock
\* ticking between the calls
LifeNext ==
    \/ /\ books = <<>>
       /\ AddBook(Dune, Herbert, Isbn1, IntArg(2), TRUE)
    \/ /\ Len(borrow_records) < MaxLifeRecords
       /\ \E b \in CallableBookIds, insert_ok \in BOOLEAN, update_ok \in BOOLEAN :
             BorrowBook(Patron1, b, insert_ok, update_ok)
    \/ \E b \in BookIds, record_ok \in BOOLEAN, update_ok \in BOOLEAN :
          ReturnBook(Patron1, b, record_ok, update_ok)
    \/ /\ now < MaxLifeTick
       /\ Tick
    \/ \E b \in BookIds : CalculateLateFee(Patron1, b)
    \/ \E b \in BookIds, reply \in GatewayReplies : PayLateFees(Patron1, b, reply)
    \/ \E reply \in GatewayReplies :
          RefundLateFeePayment(Some(Txn1), TierOneRate, reply)
    \/ GetPatronStatus(Patron1)
    \/ \E type \in {"title", "isbn"} : SearchBooks(Some(Dune), type)

LifeSpec == InitAtZero /\ [][LifeNext]_vars

\* two patrons borrowing and returning two books of one copy, the clock
\* jumping once past the loan period, and the status report asked for
StatusNext ==
    \/ /\ Len(books) < 2
       /\ AddBook(Dune, Herbert, IF books = <<>> THEN Isbn1 ELSE Isbn2,
                  IntArg(1), TRUE)
    \/ /\ Len(borrow_records) < MaxStatusRecords
       /\ \E p \in {Patron1, Patron2}, b \in BookIds : BorrowBook(p, b, TRUE, TRUE)
    \/ \E p \in {Patron1, Patron2}, b \in BookIds : ReturnBook(p, b, TRUE, TRUE)
    \/ /\ now = 0
       /\ Advance((LoanDays + 1) * TicksPerDay)
    \/ \E p \in {Patron1, Patron2, BadPatron} : GetPatronStatus(p)

StatusSpec == InitAtZero /\ [][StatusNext]_vars

Emma == <<"E", "m", "m", "a">>
Austen == <<"A", "u", "s", "t", "e", "n">>

\* the terms searched for: missing, empty, blank, in lower case, in upper
\* case, padded with whitespace, a single letter, an isbn, a padded isbn, a
\* part of an isbn, and one that matches nothing
SearchTerms ==
    {Nothing, Some(<<>>), Some(<<" ", "\t">>),
     Some(<<"d", "u", "n", "e">>), Some(<<"D", "U", "N", "E">>),
     Some(<<" ">> \o Dune \o <<" ">>), Some(<<"e">>), Some(<<"h", "e", "r", "b">>),
     Some(Isbn1), Some(Isbn1 \o <<" ">>), Some(<<"1", "1">>), Some(<<"z", "z">>)}

SearchTypes == {"isbn", "title", "author", "all", "invalid_type"}

\* searches over a catalog of up to two books, in either order
SearchNext ==
    \/ /\ Len(books) < MaxBooks
       /\ \E a \in {<<Dune, Herbert, Isbn1>>, <<Emma, Austen, Isbn2>>} :
             AddBook(a[1], a[2], a[3], IntArg(1), TRUE)
    \/ \E term \in SearchTerms, type \in SearchTypes : SearchBooks(term, type)

SearchSpec == Init /\ [][SearchNext]_vars

\* the calls of borrow_book_by_patron of several callers, interleaved at the
\* calls they make to the store, on one book of one copy
RaceNext ==
    \/ /\ books = <<>>
       /\ AddBook(Dune, Herbert, Isbn1, IntArg(1), TRUE)
    \/ \E c \in Callers, p \in {Patron1, Patron2}, b \in CallableBookIds :
          BorrowBegins(c, p, b)
    \/ \E c \in Callers : BorrowReadsBook(c)
    \/ \E c \in Callers : BorrowCounts(c)
    \/ \E c \in Callers : BorrowInserts(c)
    \/ \E c \in Callers : BorrowUpdates(c)

RaceSpec == InitAtZero /\ [][RaceNext]_vars

\* two patrons borrowing and returning one book of two copies again and
\* again, the clock moving on by JumpDays days at a time, the fee and the
\* status report asked for
RepeatNext ==
    \/ /\ books = <<>>
       /\ AddBook(Dune, Herbert, Isbn1, IntArg(2), TRUE)
    \/ /\ Len(borrow_records) < MaxRepeatRecords
       /\ \E p \in {Patron1, Patron2}, b \in BookIds : BorrowBook(p, b, TRUE, TRUE)
    \/ \E p \in {Patron1, Patron2}, b \in BookIds : ReturnBook(p, b, TRUE, TRUE)
    \/ /\ now \div TicksPerDay < MaxRepeatDay
       /\ Advance(JumpDays * TicksPerDay)
    \/ \E p \in {Patron1, Patron2}, b \in CallableBookIds : CalculateLateFee(p, b)
    \/ \E p \in {Patron1, Patron2} : GetPatronStatus(p)

RepeatSpec == InitAtZero /\ [][RepeatNext]_vars

\* the record of FeeSpec, the clock moving on a day at a time up to the
\* greatest late fee, the book returned, the fee paid, and the payment just
\* made refunded in full
CapNext ==
    \/ /\ now \div TicksPerDay < MaxFeeDay
       /\ Advance(TicksPerDay)
    \/ ReturnBook(Patron1, 1, TRUE, TRUE)
    \/ \E b \in CallableBookIds, reply \in GatewayReplies :
          PayLateFees(Patron1, b, reply)
    \/ /\ result.op = "payLateFees"
       /\ result.success
       /\ \E reply \in GatewayReplies :
             RefundLateFeePayment(result.transaction_id,
                                  result.gateway_calls[1].amount, reply)

CapSpec == FeeInit /\ [][CapNext]_vars

(* ------------------------------ the claims ----------------------------- *)

\* C1: for every book with total T, available_copies equals T - N + M, N the
\* successful borrowBook calls and M the successful returnBook calls on that
\* book, and this value lies in [0, T].
C1_AvailabilityCountsCalls ==
    \A i \in BookIds :
        LET counted == books[i].total_copies - nBorrowed[i] + nReturned[i] IN
        /\ books[i].available_copies = counted
        /\ 0 <= counted
        /\ counted <= books[i].total_copies

\* C2: in every reachable state, also after a borrowBook or returnBook call
\* one of whose store calls failed, 0 <= available_copies <= total_copies for
\* every book.
C2_AvailabilityInRange ==
    \A i \in BookIds :
        /\ 0 <= books[i].available_copies
        /\ books[i].available_copies <= books[i].total_copies

\* C3: after a successful borrowBook call the patron holds at most 5 active
\* borrow records (a borrow by a patron who holds 5 is rejected).
C3_BorrowLimitHolds ==
    (result.op = "borrowBook" /\ result.success)
        => get_patron_borrow_count(result.patron_id) <= BorrowLimit

\* the patron has a returned record of the book and no active one
ReturnedNotReborrowed(patron_id, book_id) ==
    /\ \E i \in RecordIds :
          /\ borrow_records[i].patron_id = patron_id
          /\ borrow_records[i].book_id = book_id
          /\ borrow_records[i].return_date # None
    /\ ~\E i \in RecordIds :
          /\ borrow_records[i].patron_id = patron_id
          /\ borrow_records[i].book_id = book_id
          /\ borrow_records[i].return_date = None

\* C4: once a patron's borrow of a book has been returned and the patron has
\* not borrowed it again, a returnBook(patron, book) call fails with 'Book not
\* borrowed by patron' and changes no book and no borrow record.
C4_ReturnNotRepeatable ==
    [][(result'.op = "returnBook"
        /\ ReturnedNotReborrowed(result'.patron_id, result'.book_id))
       => (/\ ~result'.success
           /\ result'.message = "Book not borrowed by patron"
           /\ books' = books
           /\ borrow_records' = borrow_records)]_vars

\* a return was refused for a pair whose borrow had been returned, while the
\* patron still holds another book
C4_Witness ==
    /\ result.op = "returnBook"
    /\ result.message = "Book not borrowed by patron"
    /\ ReturnedNotReborrowed(result.patron_id, result.book_id)
    /\ get_patron_borrow_count(result.patron_id) > 0

\* the instant a stored date stands for; only asked of a date that has one
InstantOf(stored) == stored.t

HasInstant(stored) == stored.kind \in {"datetime", "iso", "dmy_time", "dmy"}

\* the row has a usable due date: a stored one, or a borrow date to count from
HasUsableDue(row) == HasInstant(row.due_date) \/ HasInstant(row.borrow_date)

\* the calendar day the row is due
DueDay(row) ==
    IF HasInstant(row.due_date)
    THEN InstantOf(row.due_date) \div TicksPerDay
    ELSE (InstantOf(row.borrow_date) \div TicksPerDay) + 14

\* the calendar day the fee is computed against
ComparisonDay(row) ==
    IF row.return_date = None
    THEN now \div TicksPerDay
    ELSE InstantOf(row.return_date) \div TicksPerDay

\* the fee calculator has just answered for a record with a usable due date
FeeAnswered ==
    /\ result.op = "calculateLateFee"
    /\ result.fee.status \notin {"Invalid patron ID", "No borrow record"}
    /\ HasUsableDue(borrow_records[1])

\* C5: with d = comparison date - due date in whole calendar days,
\* days_overdue = max(0, d); the fee is 0 and the status 'On time' for d <= 0,
\* d x 0.50 for d in [1, 7], 3.50 + (d - 7) for d in (7, 19), 15.00 for every
\* d >= 19; the status is 'Overdue' exactly when d > 0.
C5_FeeSchedule ==
    FeeAnswered =>
        LET d == ComparisonDay(borrow_records[1]) - DueDay(borrow_records[1])
            f == result.fee
        IN  /\ f.days_overdue = (IF d > 0 THEN d ELSE 0)
            /\ (d <= 0) => (f.fee_amount = 0 /\ f.status = "On time")
            /\ (1 <= d /\ d <= 7) => f.fee_amount = d * 500
            /\ (7 < d /\ d < 19) => f.fee_amount = 3500 + (d - 7) * 1000
            /\ (d >= 19) => f.fee_amount = 15000
            /\ (f.status = "Overdue") <=> (d > 0)
            /\ f.status \in {"Overdue", "On time"}

\* the fee was asked 19 or more days after the due day and is the cap
C5_Witness ==
    /\ FeeAnswered
    /\ ComparisonDay(borrow_records[1]) - DueDay(borrow_records[1]) >= 19
    /\ result.fee.fee_amount = 15000
    /\ result.fee.status = "Overdue"

\* the fee calculator has just answered for an unreturned record due ten
\* calendar days before the current date
TenDaysOverdue ==
    /\ FeeAnswered
    /\ borrow_records[1].return_date = None
    /\ (now \div TicksPerDay) - DueDay(borrow_records[1]) = 10

\* C6 as stated: for an unreturned record due 10 calendar days before the
\* current date, fee_amount = 5.0 and days_overdue = 10.
C6_FeeAtTenDaysIsFive ==
    TenDaysOverdue =>
        (result.fee.fee_amount = 5000 /\ result.fee.days_overdue = 10)

\* C6 as amended: for an unreturned record due 10 calendar days before the
\* current date, fee_amount = 6.50 (7 x 0.50 + 3 x 1.00) and days_overdue = 10.
C6_FeeAtTenDays ==
    TenDaysOverdue =>
        (result.fee.fee_amount = 6500 /\ result.fee.days_overdue = 10)

C6_Witness ==
    /\ TenDaysOverdue
    /\ result.fee.status = "Overdue"

\* C7: a successful borrowBook(patron, book) creates exactly one new record
\* for (patron, book) with return_date unset and due_date = borrow_date + 14
\* days, decrements that book's available_copies by exactly 1, and leaves
\* every other book and every earlier record unchanged.
C7_BorrowEffect ==
    [][(result'.op = "borrowBook" /\ result'.success)
       => LET n == Len(borrow_records)
              b == result'.book_id
          IN  /\ Len(borrow_records') = n + 1
              /\ SubSeq(borrow_records', 1, n) = borrow_records
              /\ borrow_records'[n + 1].patron_id = result'.patron_id
              /\ borrow_records'[n + 1].book_id = b
              /\ borrow_records'[n + 1].return_date = None
              /\ HasInstant(borrow_records'[n + 1].borrow_date)
              /\ HasInstant(borrow_records'[n + 1].due_date)
              /\ InstantOf(borrow_records'[n + 1].due_date)
                    = InstantOf(borrow_records'[n + 1].borrow_date)
                      + 14 * TicksPerDay
              /\ b \in BookIds
              /\ Len(books') = Len(books)
              /\ books'[b].available_copies = books[b].available_copies - 1
              /\ books'[b].total_copies = books[b].total_copies
              /\ books'[b].isbn = books[b].isbn
              /\ books'[b].title = books[b].title
              /\ books'[b].author = books[b].author
              /\ \A i \in BookIds : i # b => books'[i] = books[i]]_vars

\* a borrow has just succeeded in a catalog of two books with an earlier
\* record in the store, on a clock that did not start at tick 0
C7_Witness ==
    /\ result.op = "borrowBook"
    /\ result.success
    /\ Len(books) = 2
    /\ Len(borrow_records) >= 2
    /\ now > 0

\* the input meets the data model: title and author non-blank and within
\* their lengths, isbn of exactly 13 digits, total_copies a positive integer
MeetsDataModel(args) ==
    /\ Len(Strip(args.title)) > 0
    /\ Len(Strip(args.title)) <= 200
    /\ Len(Strip(args.author)) > 0
    /\ Len(Strip(args.author)) <= 100
    /\ Len(args.isbn) = 13
    /\ \A i \in 1..Len(args.isbn) : args.isbn[i] \in Digits
    /\ args.total_copies.int
    /\ args.total_copies.v > 0

IsbnInCatalog(isbn) == \E i \in BookIds : books[i].isbn = isbn

\* the step appended one book made of the input, trimmed, with every copy
\* available, and changed no other book
InsertedOneBook(args) ==
    /\ Len(books') = Len(books) + 1
    /\ SubSeq(books', 1, Len(books)) = books
    /\ books'[Len(books) + 1].title = Strip(args.title)
    /\ books'[Len(books) + 1].author = Strip(args.author)
    /\ books'[Len(books) + 1].isbn = args.isbn
    /\ books'[Len(books) + 1].total_copies = args.total_copies.v
    /\ books'[Len(books) + 1].available_copies = args.total_copies.v

\* C8 as stated: addBook with valid input and an isbn not yet in the catalog
\* inserts exactly one book with available_copies = total_copies, title and
\* author trimmed, and changes no other book and no borrow record.
C8_AddBookInserts ==
    [][(result'.op = "addBook" /\ MeetsDataModel(result'.args)
        /\ ~IsbnInCatalog(result'.args.isbn))
       => (InsertedOneBook(result'.args)
           /\ borrow_records' = borrow_records)]_vars

\* C8 as amended: addBook with valid input and an isbn not yet in the
\* catalog, when the store's insert succeeds, returns success and inserts
\* exactly one book with available_copies = total_copies, title and author
\* trimmed, changing no other book; when the store's insert fails it returns
\* the database error and inserts nothing; either way no borrow record changes.
C8_AddBookInsertsOnStoreSuccess ==
    [][(result'.op = "addBook" /\ MeetsDataModel(result'.args)
        /\ ~IsbnInCatalog(result'.args.isbn))
       => (/\ borrow_records' = borrow_records
           /\ IF result'.success
              THEN InsertedOneBook(result'.args)
              ELSE /\ books' = books
                   /\ result'.message
                        = "Database error occurred while adding the book.")]_vars

\* a second book with a padded title has just been added beside a borrow record
C8_Witness ==
    /\ result.op = "addBook"
    /\ result.success
    /\ MeetsDataModel(result.args)
    /\ Strip(result.args.title) # result.args.title
    /\ Len(books) = 2
    /\ books[2].title = Dune
    /\ Len(borrow_records) >= 1

NoTwoBooksShareIsbn ==
    \A i \in BookIds : \A j \in BookIds : books[i].isbn = books[j].isbn => i = j

\* C9 as stated: addBook with an isbn already in the catalog fails with 'A
\* book with this ISBN already exists.' and inserts nothing; no two books of
\* the catalog share an isbn.
C9_DuplicateIsbnRejected ==
    [][/\ (result'.op = "addBook" /\ IsbnInCatalog(result'.args.isbn))
          => (/\ ~result'.success
              /\ result'.message = "A book with this ISBN already exists."
              /\ books' = books)
       /\ NoTwoBooksShareIsbn']_vars

\* the other fields of the input pass add_book_to_catalog's validation
OtherFieldsPass(args) ==
    /\ Len(Strip(args.title)) > 0
    /\ Len(Strip(args.title)) <= 200
    /\ Len(Strip(args.author)) > 0
    /\ Len(Strip(args.author)) <= 100
    /\ args.total_copies.int
    /\ args.total_copies.v > 0

\* C9 as amended: addBook with an isbn already in the catalog fails and
\* inserts nothing, with 'A book with this ISBN already exists.' when the
\* title, author and copies pass validation (an invalid one is reported
\* first); no two books of the catalog share an isbn.
C9_DuplicateIsbnRejectedAfterValidation ==
    [][/\ (result'.op = "addBook" /\ IsbnInCatalog(result'.args.isbn))
          => (/\ ~result'.success
              /\ books' = books
              /\ OtherFieldsPass(result'.args)
                    => result'.message = "A book with this ISBN already exists.")
       /\ NoTwoBooksShareIsbn']_vars

\* an addBook of an isbn of the catalog has just been refused as a duplicate
C9_Witness ==
    /\ result.op = "addBook"
    /\ result.message = "A book with this ISBN already exists."
    /\ IsbnInCatalog(result.args.isbn)
    /\ Len(books) >= 1

\* C10: every book of the catalog has an isbn of exactly 13 digits, a
\* non-blank title of at most 200 characters, a non-blank author of at most
\* 100 characters and a positive total_copies.
C10_BooksMeetDataModel ==
    \A i \in BookIds :
        /\ Len(books[i].isbn) = 13
        /\ \A k \in 1..Len(books[i].isbn) : books[i].isbn[k] \in Digits
        /\ Len(Strip(books[i].title)) > 0
        /\ Len(books[i].title) <= 200
        /\ Len(Strip(books[i].author)) > 0
        /\ Len(books[i].author) <= 100
        /\ books[i].total_copies > 0

PatronOps == {"borrowBook", "returnBook", "calculateLateFee", "payLateFees",
              "getPatronStatus"}

\* the call r was made on input the specification calls invalid: a patron id
\* that is not exactly 6 digits, book fields outside the data model, a
\* transaction id that is missing, empty or without the prefix 'txn_', a
\* refund amount that is not in (0, 15.00]
InvalidInput(r) ==
    \/ /\ r.op \in PatronOps
       /\ ~(Len(r.patron_id) = 6 /\ \A i \in 1..Len(r.patron_id) :
                                        r.patron_id[i] \in Digits)
    \/ /\ r.op = "addBook"
       /\ ~MeetsDataModel(r.args)
    \/ /\ r.op = "refundLateFeePayment"
       /\ \/ ~r.call.transaction_id.some
          \/ Len(r.call.transaction_id.v) < 4
          \/ SubSeq(r.call.transaction_id.v, 1, 4) # <<"t", "x", "n", "_">>
          \/ r.call.amount <= 0
          \/ r.call.amount > 15000

\* the call r returned a failure, a fee of zero or the empty report, and
\* called neither the store nor the gateway
RefusedUntouched(r) ==
    /\ r.store_calls = 0
    /\ r.gateway_calls = <<>>
    /\ ~r.raised
    /\ IF r.op = "calculateLateFee" THEN r.fee.fee_amount = 0
       ELSE IF r.op = "getPatronStatus" THEN r.report = EmptyReport
       ELSE ~r.success

\* C11: borrowBook, returnBook, calculateLateFee, payLateFees and
\* getPatronStatus with a patron id that is not exactly 6 digits, addBook with
\* an invalid title, author, isbn or copies, and refundLateFeePayment with a
\* bad transaction id or amount, each return a failure (or a zero fee, or the
\* empty report) without any store or gateway call, all persisted state
\* unchanged.
C11_InvalidInputRefusedFirst ==
    [][InvalidInput(result') =>
          /\ RefusedUntouched(result')
          /\ UNCHANGED <<books, borrow_records>>]_vars

\* C11 but for isbns: the same with an isbn held invalid only for its length
C11_RefusedFirstButIsbnDigits ==
    [][(/\ InvalidInput(result')
        /\ ~(result'.op = "addBook" /\ Len(result'.args.isbn) = 13))
          => /\ RefusedUntouched(result')
             /\ UNCHANGED <<books, borrow_records>>]_vars

\* the patron holds an active record on the book
HoldsActive(patron_id, book_id) ==
    \E i \in RecordIds : /\ borrow_records[i].patron_id = patron_id
                         /\ borrow_records[i].book_id = book_id
                         /\ borrow_records[i].return_date = None

IsSixDigits(patron_id) ==
    /\ Len(patron_id) = 6
    /\ \A i \in 1..Len(patron_id) : patron_id[i] \in Digits

C12_UnknownBookRefused ==
    /\ result.op \in {"borrowBook", "returnBook"}
    /\ result.book_id \notin BookIds
    /\ result.message = "Book not found."

\* C13: payLateFees calls gateway.processPayment exactly once, with the fee
\* the fee calculator returns for (patron, book) as amount, when the patron id
\* is valid, that fee is > 0 and the book exists, and zero times in every
\* other case; never more than once per call, whatever the gateway replies.
C13_GatewayCalledOnceForFee ==
    [][result'.op = "payLateFees" =>
          LET fee == calculate_late_fee_for_book(
                         borrow_records, now, result'.patron_id, result'.book_id)
              calls == result'.gateway_calls
          IN  IF /\ IsSixDigits(result'.patron_id)
                 /\ fee.fee_amount > 0
                 /\ result'.book_id \in BookIds
              THEN /\ Len(calls) = 1
                   /\ calls[1].method = "process_payment"
                   /\ calls[1].patron_id = result'.patron_id
                   /\ calls[1].amount = fee.fee_amount
              ELSE calls = <<>>]_vars

\* a payment the gateway declined: called once, not again
C13_Witness ==
    /\ result.op = "payLateFees"
    /\ Len(result.gateway_calls) = 1
    /\ result.gateway_calls[1].reply = "declined"
    /\ result.gateway_calls[1].amount > 0

\* the gateway's answer to the one call the last operation made to it, or
\* "none" when it made no call
GatewayAnswer ==
    IF result.gateway_calls = <<>> THEN "none"
    ELSE result.gateway_calls[1].reply

\* C14: payLateFees returns a transaction id only on success: after a failed
\* pre-check, a decline or a gateway exception the outcome is (false, message,
\* no transaction id); an exception of processPayment or refundPayment becomes
\* a failure result with 'Payment processing error' / 'Refund processing
\* error' and does not reach the caller.
C14_TransactionIdOnlyOnSuccess ==
    /\ result.op = "payLateFees" =>
          /\ result.transaction_id.some => result.success
          /\ GatewayAnswer \in {"none", "declined", "raised"} =>
                /\ ~result.success
                /\ result.transaction_id = Nothing
          /\ GatewayAnswer = "raised" =>
                result.message = "Payment processing error:"
          /\ ~result.raised
    /\ result.op = "refundLateFeePayment" =>
          /\ GatewayAnswer = "raised" =>
                /\ ~result.success
                /\ result.message = "Refund processing error:"
          /\ ~result.raised

\* the gateway raised in processPayment
C14_Witness ==
    /\ result.op = "payLateFees"
    /\ GatewayAnswer = "raised"

\* the gateway raised in refundPayment
C14_RefundRaised ==
    /\ result.op = "refundLateFeePayment"
    /\ GatewayAnswer = "raised"

\* C16: for a record created by borrowBook, at any moment up to and including
\* borrow date + 14 days, the fee calculator returns fee 0 with status 'On
\* time' and payLateFees for that (patron, book) fails with a 'No late fees'
\* message without a call of the gateway.
C16_NoFeeUntilDue ==
    [][(/\ result'.op \in {"calculateLateFee", "payLateFees"}
        /\ \E i \in RecordIds :
              /\ borrow_records[i].patron_id = result'.patron_id
              /\ borrow_records[i].book_id = result'.book_id
              /\ now \div TicksPerDay
                    <= (borrow_records[i].borrow_date.t \div TicksPerDay) + 14)
          => IF result'.op = "calculateLateFee"
             THEN /\ result'.fee.fee_amount = 0
                  /\ result'.fee.status = "On time"
             ELSE /\ ~result'.success
                  /\ result'.message = "No late fees to pay for this book."
                  /\ result'.gateway_calls = <<>>]_vars

\* payLateFees refused on the last day before the record is overdue
C16_Witness ==
    /\ result.op = "payLateFees"
    /\ result.message = "No late fees to pay for this book."
    /\ \E i \in RecordIds :
          /\ borrow_records[i].patron_id = result.patron_id
          /\ borrow_records[i].book_id = result.book_id
          /\ borrow_records[i].return_date = None
          /\ now \div TicksPerDay
                = (borrow_records[i].borrow_date.t \div TicksPerDay) + 14

\* C15: refundLateFeePayment rejects, without calling the gateway, a
\* transaction id that is empty or does not start with 'txn_', an amount <= 0
\* and an amount > 15.00; for every other input it calls gateway.refundPayment
\* exactly once with the given id and amount and returns success exactly when
\* the gateway reports success.
C15_RefundChecksThenOneCall ==
    result.op = "refundLateFeePayment" =>
        LET id == result.call.transaction_id
            amount == result.call.amount
            calls == result.gateway_calls
        IN  IF \/ ~id.some
               \/ Len(id.v) < 4
               \/ SubSeq(id.v, 1, 4) # <<"t", "x", "n", "_">>
               \/ amount <= 0
               \/ amount > 15000
            THEN /\ ~result.success
                 /\ calls = <<>>
            ELSE /\ Len(calls) = 1
                 /\ calls[1].method = "refund_payment"
                 /\ calls[1].transaction_id = id
                 /\ calls[1].amount = amount
                 /\ result.success <=> calls[1].reply = "approved"

\* a refund of exactly 15.00 went to the gateway and was approved
C15_Witness ==
    /\ result.op = "refundLateFeePayment"
    /\ result.call.amount = 15000
    /\ result.success
    /\ Len(result.gateway_calls) = 1

\* C17: a record is created only by borrowBook; its return_date changes at
\* most once, from unset to set, by returnBook; its patron_id, book_id,
\* borrow_date and due_date never change; no operation deletes a record.
C17_RecordLifecycle ==
    [][/\ Len(borrow_records') >= Len(borrow_records)
       /\ Len(borrow_records') > Len(borrow_records)
             => /\ result'.op = "borrowBook"
                /\ Len(borrow_records') = Len(borrow_records) + 1
       /\ \A i \in RecordIds :
             /\ borrow_records'[i].id = borrow_records[i].id
             /\ borrow_records'[i].patron_id = borrow_records[i].patron_id
             /\ borrow_records'[i].book_id = borrow_records[i].book_id
             /\ borrow_records'[i].borrow_date = borrow_records[i].borrow_date
             /\ borrow_records'[i].due_date = borrow_records[i].due_date
             /\ borrow_records'[i].return_date # borrow_records[i].return_date
                   => /\ borrow_records[i].return_date = None
                      /\ result'.op = "returnBook"]_vars

\* a record returned at an earlier tick stands beside a later record of the
\* same patron and book that has been returned too
C17_Witness ==
    \E i \in RecordIds, j \in RecordIds :
        /\ i < j
        /\ borrow_records[i].patron_id = borrow_records[j].patron_id
        /\ borrow_records[i].book_id = borrow_records[j].book_id
        /\ borrow_records[i].return_date # None
        /\ borrow_records[j].return_date # None
        /\ borrow_records[i].return_date.t < borrow_records[j].borrow_date.t
        /\ result.op = "returnBook"
        /\ result.success

\* the sum of the current fees of the rows from the k-th on
RECURSIVE SumOfRowFees(_, _)
SumOfRowFees(rows, k) ==
    IF k > Len(rows) THEN 0
    ELSE rows[k].current_fee + SumOfRowFees(rows, k + 1)

\* C18: getPatronStatus for a valid patron returns a report with exactly one
\* row per active record of that patron, a count equal to the number of rows,
\* total fees equal to the sum of the rows' current fees, and a history of
\* exactly the patron's records with a return date; for an invalid patron id
\* it returns the empty report; the call changes no persisted state.
C18_StatusReport ==
    [][result'.op = "getPatronStatus" =>
          LET p == result'.patron_id
              report == result'.report
              rows == report.borrowed_books
              history == report.borrow_history
              returned == {i \in RecordIds :
                              /\ borrow_records[i].patron_id = p
                              /\ borrow_records[i].return_date # None}
          IN  /\ UNCHANGED <<books, borrow_records, now>>
              /\ ~result'.raised
              /\ IF IsSixDigits(p)
                 THEN /\ \A b \in BookIds :
                            Cardinality({k \in 1..Len(rows) : rows[k].book_id = b})
                            = Cardinality({i \in RecordIds :
                                   /\ borrow_records[i].patron_id = p
                                   /\ borrow_records[i].book_id = b
                                   /\ borrow_records[i].return_date = None})
                      /\ \A k \in 1..Len(rows) : rows[k].book_id \in BookIds
                      /\ report.number_borrowed_books = Len(rows)
                      /\ report.total_late_fees = SumOfRowFees(rows, 1)
                      /\ {history[k].record_id : k \in 1..Len(history)} = returned
                      /\ Len(history) = Cardinality(returned)
                 ELSE report = EmptyReport]_vars

\* a report of two active rows with fees to pay, beside a returned record of
\* the other patron that the report leaves out
C18_Witness ==
    /\ result.op = "getPatronStatus"
    /\ Len(result.report.borrowed_books) = 2
    /\ \A k \in 1..2 : result.report.borrowed_books[k].current_fee > 0
    /\ result.report.total_late_fees > result.report.borrowed_books[1].current_fee
    /\ result.report.borrow_history = <<>>
    /\ \E i \in RecordIds : /\ borrow_records[i].patron_id # result.patron_id
                            /\ borrow_records[i].return_date # None

\* a report with one active row and one row of history
C18_ActiveAndHistory ==
    /\ result.op = "getPatronStatus"
    /\ Len(result.report.borrowed_books) = 1
    /\ Len(result.report.borrow_history) = 1

\* the book b matches the term by the type: isbn by exact equality, title and
\* author by case-insensitive substring, any other type by case-insensitive
\* substring of title or of author
MatchesByType(b, term, type) ==
    LET InTitle == Contains(Lower(b.title), Lower(term))
        InAuthor == Contains(Lower(b.author), Lower(term))
    IN  IF type = "isbn" THEN b.isbn = term
        ELSE IF type = "title" THEN InTitle
        ELSE IF type = "author" THEN InAuthor
        ELSE InTitle \/ InAuthor

\* the books of the catalog matching the term by the type, in catalog order
CatalogMatches(term, type) ==
    LET Selected(b) == MatchesByType(b, term, type)
    IN  SelectSeq(books, Selected)

IsBlank(s) == \A i \in 1..Len(s) : s[i] \in Whitespace

\* C19 as stated: searchBooks returns the empty list for a missing or blank
\* term without calling the store; otherwise it returns exactly the catalog
\* books matching the term by type, in the catalog's own order, and changes no
\* state.
C19_SearchMatchesTerm ==
    [][result'.op = "searchBooks" =>
          LET term == result'.call.search_term
              type == result'.call.search_type
          IN  /\ UNCHANGED <<books, borrow_records, now>>
              /\ IF ~term.some \/ IsBlank(term.v)
                 THEN /\ result'.found = <<>>
                      /\ result'.store_calls = 0
                 ELSE result'.found = CatalogMatches(term.v, type)]_vars

\* C19 as amended: the same, the books being matched against the term with its
\* leading and trailing whitespace removed.
C19_SearchMatchesTrimmedTerm ==
    [][result'.op = "searchBooks" =>
          LET term == result'.call.search_term
              type == result'.call.search_type
          IN  /\ UNCHANGED <<books, borrow_records, now>>
              /\ IF ~term.some \/ IsBlank(term.v)
                 THEN /\ result'.found = <<>>
                      /\ result'.store_calls = 0
                 ELSE result'.found = CatalogMatches(Strip(term.v), type)]_vars

\* a search on a padded term found a book, in a catalog of two
C19_Witness ==
    /\ result.op = "searchBooks"
    /\ result.call.search_term.some
    /\ Strip(result.call.search_term.v) # result.call.search_term.v
    /\ Len(result.found) = 1
    /\ Len(books) = 2

\* a search by another type found both books, in catalog order
C19_BothFound ==
    /\ result.op = "searchBooks"
    /\ result.call.search_type = "invalid_type"
    /\ Len(books) = 2
    /\ result.found = books

\* the number of active borrow records of the patron among recs
ActiveCount(recs, patron_id) ==
    Cardinality({i \in 1..Len(recs) : /\ recs[i].patron_id = patron_id
                                      /\ recs[i].return_date = None})

CopiesOut(bks, book_id) ==
    bks[book_id].total_copies - bks[book_id].available_copies

\* C21: if the borrow-record insert fails, borrowBook returns a database-error
\* failure with no record created and available_copies unchanged; if the
\* insert succeeds but the availability decrement fails, it returns a
\* database-error failure while the new active borrow record remains in the
\* store and available_copies is unchanged.
C21_BorrowPartialFailure ==
    [][/\ (/\ result'.op = "borrowBook"
           /\ result'.message =
                 "Database error occurred while creating borrow record.")
          => /\ ~result'.success
             /\ UNCHANGED <<books, borrow_records>>
       /\ (/\ result'.op = "borrowBook"
           /\ result'.message =
                 "Database error occurred while updating book availability.")
          => /\ ~result'.success
             /\ UNCHANGED books
             /\ Len(borrow_records') = Len(borrow_records) + 1
             /\ SubSeq(borrow_records', 1, Len(borrow_records)) = borrow_records
             /\ LET new == borrow_records'[Len(borrow_records')]
                IN  /\ new.patron_id = result'.patron_id
                    /\ new.book_id = result'.book_id
                    /\ new.return_date = None
       /\ (result'.op = "borrowBook" /\ ~result'.success)
          => UNCHANGED books]_vars

\* a borrow failed on the availability update and left its record: the book
\* has an active record more than copies out
C21_Witness ==
    /\ result.op = "borrowBook"
    /\ result.message = "Database error occurred while updating book availability."
    /\ Cardinality({i \in RecordIds : /\ borrow_records[i].book_id = result.book_id
                                      /\ borrow_records[i].return_date = None})
          > CopiesOut(books, result.book_id)

\* a borrow failed on the insert
C21_InsertFailed ==
    /\ result.op = "borrowBook"
    /\ result.message = "Database error occurred while creating borrow record."

\* C22: if setting the return date fails, returnBook returns 'Could not record
\* return' with the record still active and available_copies unchanged; if
\* setting the return date succeeds but the availability increment fails, it
\* returns 'Could not update availability' while the record stays marked
\* returned and available_copies is not incremented; a later returnBook for
\* the same borrow fails with 'not borrowed' and does not recover the copy.
C22_ReturnPartialFailure ==
    [][/\ (/\ result'.op = "returnBook"
           /\ result'.message = "Could not record return")
          => /\ ~result'.success
             /\ UNCHANGED <<books, borrow_records>>
             /\ HoldsActive(result'.patron_id, result'.book_id)
       /\ (/\ result'.op = "returnBook"
           /\ result'.message = "Could not update availability")
          => /\ ~result'.success
             /\ UNCHANGED books
             /\ Len(borrow_records') = Len(borrow_records)
             /\ \E i \in RecordIds :
                   /\ borrow_records[i].patron_id = result'.patron_id
                   /\ borrow_records[i].book_id = result'.book_id
                   /\ borrow_records[i].return_date = None
                   /\ borrow_records'[i].return_date # None
             /\ \A i \in RecordIds :
                   (/\ borrow_records'[i].patron_id = result'.patron_id
                    /\ borrow_records'[i].book_id = result'.book_id)
                      => borrow_records'[i].return_date # None
       /\ (/\ result'.op = "returnBook"
           /\ result.op = "returnBook"
           /\ result.message = "Could not update availability"
           /\ result'.patron_id = result.patron_id
           /\ result'.book_id = result.book_id)
          => /\ ~result'.success
             /\ result'.message = "Book not borrowed by patron"
             /\ UNCHANGED <<books, borrow_records>>]_vars

\* a return was refused as not borrowed after an earlier return of the same
\* borrow had stamped the record and lost the copy
C22_Witness ==
    /\ result.op = "returnBook"
    /\ result.message = "Book not borrowed by patron"
    /\ \E i \in RecordIds : /\ borrow_records[i].patron_id = result.patron_id
                            /\ borrow_records[i].book_id = result.book_id
                            /\ borrow_records[i].return_date # None
    /\ result.book_id \in BookIds
    /\ CopiesOut(books, result.book_id)
          > Cardinality({i \in RecordIds :
                            /\ borrow_records[i].book_id = result.book_id
                            /\ borrow_records[i].return_date = None})

\* a return failed on the return date
C22_RecordFailed ==
    /\ result.op = "returnBook"
    /\ result.message = "Could not record return"

\* every caller's call has returned, each having read the book while it had
\* its one copy available
AllPassedBeforeDecrement ==
    \A c \in Callers : /\ in_flight[c].pc = "done"
                       /\ in_flight[c].book_id = 1
                       /\ in_flight[c].available_seen = 1

\* C23: when two borrowBook operations on the same book with exactly one
\* available copy are interleaved at store-call granularity and both pass the
\* availability check before either decrements, both succeed: every such call
\* has left an active borrow record for the single copy, and available_copies
\* has been decremented once per call, below 0.
C23_RaceOversells ==
    (Len(books) = 1 /\ AllPassedBeforeDecrement) =>
        /\ books[1].total_copies = 1
        /\ Cardinality({i \in RecordIds : /\ borrow_records[i].book_id = 1
                                          /\ borrow_records[i].return_date = None})
              = MaxCallers
        /\ nBorrowed[1] = MaxCallers
        /\ books[1].available_copies = 1 - MaxCallers
        /\ books[1].available_copies < 0
        /\ result.op = "borrowBook" /\ result.success

\* two calls have both passed the check and returned: two active records on
\* the one copy
C23_Witness ==
    /\ Len(books) = 1
    /\ AllPassedBeforeDecrement
    /\ Len(borrow_records) >= 2
    /\ books[1].available_copies < 0

\* the ids of the records of the pair (patron, book), in insertion order
PairIds(patron_id, book_id) ==
    {i \in RecordIds : /\ borrow_records[i].patron_id = patron_id
                       /\ borrow_records[i].book_id = book_id}

\* the fee the schedule gives for a record d days past its due day
ScheduledFee(d) ==
    IF d <= 0 THEN 0
    ELSE IF d <= 7 THEN d * 500
    ELSE IF d < 19 THEN 3500 + (d - 7) * 1000
    ELSE 15000

\* days past its due day of the record row, at its return or else now
DaysPastDue(row) == ComparisonDay(row) - DueDay(row)

\* C24: calculateLateFee(patron, book) always evaluates the most recently
\* inserted borrow record of the pair: the fee reported is that of the record
\* with the greatest id, with its own due date and its own return date, and
\* not that of an earlier one; with no record of the pair the answer is fee 0
\* with status 'No borrow record'.
C24_FeeOfMostRecentRecord ==
    (result.op = "calculateLateFee" /\ ValidPatronId(result.patron_id)) =>
        LET ids == PairIds(result.patron_id, result.book_id) IN
        IF ids = {}
        THEN /\ result.fee.fee_amount = 0
             /\ result.fee.status = "No borrow record"
        ELSE LET last == CHOOSE i \in ids : \A j \in ids : j <= i
                 d == DaysPastDue(borrow_records[last])
             IN  /\ result.fee.fee_amount = ScheduledFee(d)
                 /\ result.fee.days_overdue = (IF d > 0 THEN d ELSE 0)
                 /\ result.fee.status # "No borrow record"

\* the patron borrowed the book, returned it late and borrowed it again: the
\* fee asked for is that of the new active record, not of the returned one
C24_Witness ==
    /\ result.op = "calculateLateFee"
    /\ Len(borrow_records) >= 2
    /\ borrow_records[1].patron_id = result.patron_id
    /\ borrow_records[1].book_id = result.book_id
    /\ borrow_records[1].return_date # None
    /\ PairIds(result.patron_id, result.book_id) = {1, 2}
    /\ borrow_records[2].return_date = None
    /\ borrow_records[2].due_date # borrow_records[1].due_date
    /\ ScheduledFee(DaysPastDue(borrow_records[1])) > 0
    /\ result.fee.fee_amount = ScheduledFee(DaysPastDue(borrow_records[2]))
    /\ result.fee.fee_amount # ScheduledFee(DaysPastDue(borrow_records[1]))

\* days past its own due day of an active-borrow row of the report, today
RowDaysPastDue(row) == (now \div TicksPerDay) - DueDay(row)

\* C29: in getPatronStatus every active-borrow row reports the days overdue
\* and the fee of that row's own borrow record (of the due date the row itself
\* carries), also when the patron holds two active records of the same book
\* with different due dates.
C29_RowsReportOwnFee ==
    (result.op = "getPatronStatus" /\ ValidPatronId(result.patron_id)) =>
        \A k \in 1..Len(result.report.borrowed_books) :
            LET row == result.report.borrowed_books[k]
                d == RowDaysPastDue(row)
            IN  /\ row.days_overdue = (IF d > 0 THEN d ELSE 0)
                /\ row.current_fee = ScheduledFee(d)

\* the same when the patron holds each book at most once
C29_RowsReportOwnFeeHeldOnce ==
    (/\ result.op = "getPatronStatus"
     /\ ValidPatronId(result.patron_id)
     /\ \A k, l \in 1..Len(result.report.borrowed_books) :
            (result.report.borrowed_books[k].book_id
                 = result.report.borrowed_books[l].book_id) => k = l) =>
        \A k \in 1..Len(result.report.borrowed_books) :
            LET row == result.report.borrowed_books[k]
                d == RowDaysPastDue(row)
            IN  /\ row.days_overdue = (IF d > 0 THEN d ELSE 0)
                /\ row.current_fee = ScheduledFee(d)

\* the fee the calculator reports for the record of FeeSpec, given the
\* records and the clock
FeeReportedAt(recs, clock) ==
    calculate_late_fee_for_book(recs, clock, Patron1, 1).fee_amount

\* the fee the calculator reports for the record of FeeSpec in this state
ReportedFee == FeeReportedAt(borrow_records, now)

\* the fee of a returned record for the day of its return
FeeAtReturn(row) ==
    IF HasUsableDue(row)
    THEN ScheduledFee((InstantOf(row.return_date) \div TicksPerDay) - DueDay(row))
    ELSE 0

\* C25: the fee is computed against the return date when the record is
\* returned and against the current date otherwise: while the record is
\* unreturned the reported fee never decreases as the clock advances and never
\* passes 15.00; once returnBook has set the return date the reported fee
\* stays at the value for the return date however far the clock advances; the
\* fee of returnBook's success message is this value, and the message quotes
\* it exactly when it is above 0.
C25_FeeFloatsThenFixed ==
    [][/\ (result'.op = "tick" /\ borrow_records[1].return_date = None) =>
              /\ FeeReportedAt(borrow_records', now') >= ReportedFee
              /\ FeeReportedAt(borrow_records', now') <= 15000
       /\ (result'.op = "tick" /\ borrow_records[1].return_date # None) =>
              /\ now' > now
              /\ FeeReportedAt(borrow_records', now') = ReportedFee
              /\ ReportedFee = FeeAtReturn(borrow_records[1])
       /\ (result'.op = "calculateLateFee" /\ result'.patron_id = Patron1
               /\ result'.book_id = 1) =>
              /\ UNCHANGED <<borrow_records, now>>
              /\ result'.fee.fee_amount = ReportedFee
              /\ (borrow_records[1].return_date # None) =>
                     result'.fee.fee_amount = FeeAtReturn(borrow_records[1])
       /\ (result'.op = "returnBook" /\ result'.success) =>
              /\ borrow_records[1].return_date = None
              /\ InstantOf(borrow_records'[1].return_date) = now
              /\ result'.fee.fee_amount = FeeAtReturn(borrow_records'[1])
              /\ result'.fee.fee_amount = ReportedFee
              /\ FeeReportedAt(borrow_records', now') = ReportedFee
              /\ (result'.message = "Returned successfully. Late fee")
                     <=> (result'.fee.fee_amount > 0)
              /\ (result'.message = "Returned successfully")
                     <=> (result'.fee.fee_amount = 0)
       /\ (result'.op = "returnBook" /\ ~result'.success) =>
              UNCHANGED <<borrow_records, now>>]_vars

\* the record was returned late, the clock has moved on by days since, and
\* the fee just reported is still the one for the return date, below the one
\* the current date would give
C25_Witness ==
    /\ result.op = "calculateLateFee"
    /\ result.patron_id = Patron1
    /\ result.book_id = 1
    /\ borrow_records[1].return_date # None
    /\ HasUsableDue(borrow_records[1])
    /\ now \div TicksPerDay > InstantOf(borrow_records[1].return_date) \div TicksPerDay
    /\ result.fee.fee_amount > 0
    /\ result.fee.fee_amount = FeeAtReturn(borrow_records[1])
    /\ result.fee.fee_amount
           < ScheduledFee((now \div TicksPerDay) - DueDay(borrow_records[1]))

\* the book was just returned late and the message quotes the fee
C25_LateReturnQuoted ==
    /\ result.op = "returnBook"
    /\ result.message = "Returned successfully. Late fee"
    /\ result.fee.fee_amount = FeeAtReturn(borrow_records[1])
    /\ result.fee.fee_amount > 0

\* the active (unreturned) borrow records of a book
ActiveOfBook(book_id) ==
    {i \in RecordIds : /\ borrow_records[i].book_id = book_id
                       /\ borrow_records[i].return_date = None}

\* C26: in every state reached by addBook, borrowBook and returnBook calls
\* in which no store call fails, total_copies - available_copies of each book
\* equals the number of its active borrow records, also when one patron
\* borrows the same book more than once before returning it.
C26_CopiesConserved ==
    \A b \in BookIds :
        books[b].total_copies - books[b].available_copies
            = Cardinality(ActiveOfBook(b))

\* every borrow record is of a book of the catalog
RecordsOfKnownBooks ==
    \A i \in RecordIds : borrow_records[i].book_id \in BookIds

\* C27: in every state reached through the system's own operations
\* payLateFees never returns 'Book not found': a fee above 0 implies a borrow
\* record and so a book of the catalog, and for an unknown book id payLateFees
\* fails before the book lookup with 'No late fees to pay', the gateway not
\* called.
C27_PayNeverBookNotFound ==
    /\ RecordsOfKnownBooks
    /\ (result.op = "payLateFees") =>
           /\ result.message # "Book not found."
           /\ (ValidPatronId(result.patron_id) /\ result.book_id \notin BookIds) =>
                  /\ ~result.success
                  /\ result.message = "No late fees to pay for this book."
                  /\ result.gateway_calls = <<>>
                  /\ result.store_calls = 1

\* a payment asked for an unknown book id while the patron owes a fee on a
\* book of the catalog: refused with 'No late fees to pay'
C27_Witness ==
    /\ result.op = "payLateFees"
    /\ ValidPatronId(result.patron_id)
    /\ result.book_id \notin BookIds
    /\ result.message = "No late fees to pay for this book."
    /\ \E i \in RecordIds :
          /\ borrow_records[i].patron_id = result.patron_id
          /\ ScheduledFee(DaysPastDue(borrow_records[i])) > 0

\* C28: payLateFees and refundLateFeePayment change no book and no borrow
\* record and keep no record of payments, whatever their outcome: after a
\* successful payment the fee calculator still reports the same fee for the
\* (patron, book), and a second payLateFees call at the same clock value
\* calls the gateway again with the same amount.
C28_PaymentsLeaveNoTrace ==
    [][/\ (result'.op \in {"payLateFees", "refundLateFeePayment"}) =>
              UNCHANGED <<books, borrow_records, now, nBorrowed, nReturned>>
       /\ (/\ result.op = "payLateFees"
           /\ result.success
           /\ result'.op = "calculateLateFee"
           /\ result'.patron_id = result.patron_id
           /\ result'.book_id = result.book_id) =>
              /\ result'.fee = result.fee
              /\ result'.fee.fee_amount > 0
       /\ (/\ result.op = "payLateFees"
           /\ result.success
           /\ result'.op = "payLateFees"
           /\ result'.patron_id = result.patron_id
           /\ result'.book_id = result.book_id) =>
              /\ Len(result'.gateway_calls) = 1
              /\ result'.gateway_calls[1].method = "process_payment"
              /\ result'.gateway_calls[1].amount = result.gateway_calls[1].amount
              /\ result'.gateway_calls[1].amount > 0]_vars

\* a payment has just succeeded and the record it paid for is as it was:
\* still unreturned, still owing the fee that was paid
C28_Witness ==
    /\ result.op = "payLateFees"
    /\ result.success
    /\ Len(result.gateway_calls) = 1
    /\ result.gateway_calls[1].amount > 0
    /\ LET id == MostRecentId(borrow_records, result.patron_id, result.book_id)
       IN  /\ id # 0
           /\ borrow_records[id].return_date = None
           /\ ScheduledFee(DaysPastDue(borrow_records[id]))
                  = result.gateway_calls[1].amount

\* C30: every amount payLateFees passes to the gateway's process_payment is a
\* multiple of 0.50 above 0 and at most 15.00, so the full amount of any
\* payment made through payLateFees passes refundLateFeePayment's amount
\* check: the refund of a payment just made reaches the gateway with that
\* amount.
C30_PaidAmountsRefundable ==
    [][/\ (result'.op = "payLateFees" /\ result'.gateway_calls # <<>>) =>
              LET amount == result'.gateway_calls[1].amount IN
              /\ result'.gateway_calls[1].method = "process_payment"
              /\ amount % 500 = 0
              /\ amount > 0
              /\ amount <= 15000
       /\ (/\ result.op = "payLateFees"
           /\ result.success
           /\ result'.op = "refundLateFeePayment"
           /\ result'.call.transaction_id = result.transaction_id
           /\ result'.call.amount = result.gateway_calls[1].amount) =>
              /\ result'.message \in {"Refund processed", "Refund failed:",
                                      "Refund processing error:"}
              /\ Len(result'.gateway_calls) = 1
              /\ result'.gateway_calls[1].method = "refund_payment"
              /\ result'.gateway_calls[1].amount = result.gateway_calls[1].amount]_vars

\* the greatest late fee was paid and the payment has just been refunded in
\* full
C30_Witness ==
    /\ result.op = "refundLateFeePayment"
    /\ result.success
    /\ result.call.amount = 15000
    /\ Len(result.gateway_calls) = 1
    /\ ScheduledFee(DaysPastDue(borrow_records[1])) = 15000

\* a fee of half a unit was paid
C30_SmallestPaid ==
    /\ result.op = "payLateFees"
    /\ result.success
    /\ result.gateway_calls[1].amount = 500

====
